---- MODULE Spec2Model ----
(***************************************************************************)
(* PayHub payroll front end (React).  The model covers the App shell       *)
(* (session + router), Login, Settings, Dashboard, Employees, Promotions   *)
(* and Payslips components.  Every async handler invocation is a process   *)
(* in `procs`; every HTTP request it issues is an entry of `log` (the      *)
(* browser's network log), whose status is filled in when the response     *)
(* arrives.  The backend is external: every request may succeed or fail.   *)
(***************************************************************************)
EXTENDS Integers, Sequences, FiniteSets, TLC

(***************************************************************************)
(* Bounds of the model.                                                    *)
(***************************************************************************)
\* the user starts a handler that issues requests (a submit, a save, a
\* delete, a download) only while fewer than this many such handler
\* invocations appear in the network log
MaxHandlers == 2
\* a navigation mounts a list view only while fewer than this many mount
\* effects appear in the network log
MaxMounts == 1

(***************************************************************************)
(* JavaScript values.                                                      *)
(* Text typed into an <input> is a sequence of characters.  NaN, undefined *)
(* and null are sentinels outside the modelled value ranges.               *)
(***************************************************************************)
NaN == -1000000
Undefined == "<undefined>"
Null == "<null>"
NoId == "<none>"

Digits == {"0", "1", "2", "3", "4", "5", "6", "7", "8", "9"}

DigitVal(c) ==
  CASE c = "0" -> 0 [] c = "1" -> 1 [] c = "2" -> 2 [] c = "3" -> 3
    [] c = "4" -> 4 [] c = "5" -> 5 [] c = "6" -> 6 [] c = "7" -> 7
    [] c = "8" -> 8 [] c = "9" -> 9

DigitChar(d) ==
  CASE d = 0 -> "0" [] d = 1 -> "1" [] d = 2 -> "2" [] d = 3 -> "3"
    [] d = 4 -> "4" [] d = 5 -> "5" [] d = 6 -> "6" [] d = 7 -> "7"
    [] d = 8 -> "8" [] d = 9 -> "9"

\* length of the longest prefix of s made of digits
RECURSIVE DigitPrefixLen(_)
DigitPrefixLen(s) ==
  IF s = <<>> \/ Head(s) \notin Digits THEN 0 ELSE 1 + DigitPrefixLen(Tail(s))

RECURSIVE DigitsValue(_, _)
DigitsValue(s, n) ==
  IF n = 0 THEN 0 ELSE 10 * DigitsValue(s, n - 1) + DigitVal(s[n])

\* ECMAScript parseInt(string): optional sign, then the longest digit prefix;
\* NaN when there is no digit.  Anything after the digits (".5") is ignored.
parseInt(s) ==
  LET neg  == s # <<>> /\ Head(s) = "-"
      rest == IF s # <<>> /\ Head(s) \in {"-", "+"} THEN Tail(s) ELSE s
      n    == DigitPrefixLen(rest)
  IN  IF n = 0 THEN NaN
      ELSE IF neg THEN 0 - DigitsValue(rest, n) ELSE DigitsValue(rest, n)

\* ECMAScript parseFloat(string) on the inputs of the model (integers only:
\* no input of the model has a fraction part).
parseFloat(s) == parseInt(s)

\* JavaScript `x || 0` on a number: NaN and 0 are falsy.
OrZero(x) == IF x = NaN \/ x = 0 THEN 0 ELSE x

\* String(n) for a number held in an <input value={n}>
RECURSIVE NatToStr(_)
NatToStr(n) ==
  IF n < 10 THEN <<DigitChar(n)>> ELSE NatToStr(n \div 10) \o <<DigitChar(n % 10)>>

ToStr(n) == IF n = NaN THEN <<"N", "a", "N">>
            ELSE IF n < 0 THEN <<"-">> \o NatToStr(0 - n) ELSE NatToStr(n)

\* JavaScript truthiness of a string-or-null value
Truthy(v) == v # Null /\ v # Undefined /\ v # ""

\* localStorage.setItem converts its value to a string
StorageString(v) == IF v = Undefined THEN "undefined"
                    ELSE IF v = Null THEN "null" ELSE v

\* `error.response?.data?.detail || fallback`
DetailOr(detail, fallback) == IF Truthy(detail) THEN detail ELSE fallback

\* JSON.stringify of a request body drops the keys whose value is undefined
JsonBody(obj) ==
  LET keep == {k \in DOMAIN obj : obj[k] # Undefined}
  IN  [k \in keep |-> obj[k]]

(***************************************************************************)
(* State.                                                                  *)
(***************************************************************************)
VARIABLES
  storage,          \* localStorage: [token, username], Null when absent
  isAuthenticated,  \* App state
  isLoading,        \* App state
  path,             \* browser location
  login,            \* Login component state
  settings,         \* Settings component state
  dash,             \* Dashboard component state
  emp,              \* Employees component state
  promo,            \* Promotions component state
  pay,              \* Payslips component state
  procs,            \* in-flight async handler invocations, by id
  log,              \* network log: requests issued, with their status
  toast,            \* the notification shown last
  saved,            \* name of the file saved last by a download
  dbPayslips,       \* backend: the payslips it holds
  dbIssued          \* backend: number of payslip ids handed out

vars == <<storage, isAuthenticated, isLoading, path, login, settings, dash,
          emp, promo, pay, procs, log, toast, saved, dbPayslips, dbIssued>>

appVars  == <<storage, isAuthenticated, isLoading, path>>
viewVars == <<login, settings, dash, emp, promo, pay>>
dbVars   == <<dbPayslips, dbIssued>>

(***************************************************************************)
(* Values exchanged with the backend.                                      *)
(***************************************************************************)
\* what the user types or selects, per kind of input: the Login inputs, the
\* Settings inputs, the text and salary inputs of the employee and promotion
\* forms, the month select, and the day inputs of a payslip row in edit mode
Typed == [username |-> {"", "admin"}, password |-> {"", "pw"},
          current_password |-> {"", "pw"}, new_username |-> {"", "boss"},
          new_password |-> {"", "abc"},
          confirm_password |-> {"", "abc", "xyz"},
          text |-> {"", "x"}, salary |-> {<<>>, <<"5", "0", "0">>},
          month |-> {<<"1", "2">>},
          paid_days |-> {<<>>, <<"2", "5">>}, lop_days |-> {<<"5">>}]
\* what a login response can carry in data.token / data.username
LoginResponses == {[token |-> "", username |-> "admin"],
                   [token |-> "tok1", username |-> "admin"]}
\* `detail` of an error body: absent, or a server message
ErrDetails == {Undefined, "server detail"}

SalaryKeys == {"basic", "house_rent_allowance", "transport_allowance",
               "fixed_allowance", "professional_tax"}

\* Of the seven text fields of an employee, which the form handles alike
\* (handleInputChange, all `required`), the model keeps name and designation.
E1 == [id |-> "e1", name |-> "Ann", designation |-> "Dev",
       salary_components |-> [k \in SalaryKeys |-> IF k = "basic" THEN 100 ELSE 0]]
E2 == [id |-> "e2", name |-> "Bob", designation |-> "Ops",
       salary_components |-> [k \in SalaryKeys |-> IF k = "basic" THEN 200 ELSE 0]]
NullEmployee == [id |-> NoId]

Pr1 == [id |-> "r1", employee_id |-> "e1", new_designation |-> "Lead"]

Stats0 == [total_active_employees |-> 0, total_monthly_payroll |-> 0,
           total_payslips_generated |-> 0]
Stats1 == [total_active_employees |-> 2, total_monthly_payroll |-> 300,
           total_payslips_generated |-> 1]

\* ids the backend hands out to generated payslips, in order
PayslipIds == <<"p1", "p2", "p3", "p4", "p5", "p6", "p7", "p8">>
P1 == [id |-> "p1", employee_id |-> "e1", employee_no |-> "E001",
       month |-> 1, year |-> 2025, paid_days |-> 30, lop_days |-> 0,
       home_collection_visit |-> 50]

EmployeeNoOf(eid) == IF eid = "e1" THEN "E001" ELSE IF eid = "e2" THEN "E002" ELSE ""

(***************************************************************************)
(* Router (App.js).                                                        *)
(***************************************************************************)
Paths == {"/login", "/", "/dashboard", "/employees", "/promotions",
          "/payslips", "/settings"}
ChildViews == [p \in {"/dashboard", "/employees", "/promotions", "/payslips",
                      "/settings"} |->
                 CASE p = "/dashboard"  -> "Dashboard"
                   [] p = "/employees"  -> "Employees"
                   [] p = "/promotions" -> "Promotions"
                   [] p = "/payslips"   -> "Payslips"
                   [] p = "/settings"   -> "Settings"]

\* a <Routes> table whose protected routes do not look at the session
RouteElementNoGuard(p, auth) ==
  IF p = "/login"
  THEN IF auth THEN [navigate |-> TRUE, to |-> "/dashboard", view |-> "None"]
       ELSE [navigate |-> FALSE, to |-> p, view |-> "Login"]
  ELSE IF p = "/" THEN [navigate |-> TRUE, to |-> "/dashboard", view |-> "None"]
  ELSE [navigate |-> FALSE, to |-> p, view |-> ChildViews[p]]

\* the element the <Routes> table renders at path p
RouteElement(p, auth) ==
  IF p = "/login"
  THEN IF auth THEN [navigate |-> TRUE, to |-> "/dashboard", view |-> "None"]
       ELSE [navigate |-> FALSE, to |-> p, view |-> "Login"]
  ELSE IF ~auth THEN [navigate |-> TRUE, to |-> "/login", view |-> "None"]
  ELSE IF p = "/" THEN [navigate |-> TRUE, to |-> "/dashboard", view |-> "None"]
  ELSE [navigate |-> FALSE, to |-> p, view |-> ChildViews[p]]

\* follow <Navigate> elements until a view is rendered
RECURSIVE Resolve(_, _)
Resolve(p, auth) ==
  LET el == RouteElement(p, auth)
  IN  IF el.navigate THEN Resolve(el.to, auth) ELSE p

\* what App renders: the placeholder while isLoading, else the routed view
RenderedView(p, auth, loading) ==
  IF loading THEN "Loading" ELSE RouteElement(p, auth).view

View == RenderedView(path, isAuthenticated, isLoading)

(***************************************************************************)
(* Initial component state (the useState initialisers).                    *)
(***************************************************************************)
LoginInit == [username |-> "", password |-> "", loading |-> FALSE]

SettingsFormInit == [current_password |-> "", new_username |-> "",
                     new_password |-> "", confirm_password |-> ""]
SettingsInit == [formData |-> SettingsFormInit, loading |-> FALSE]

DashInit == [stats |-> Stats0, loading |-> TRUE]

EmpFormInit ==
  [name |-> "", designation |-> "",
   salary_components |-> [k \in SalaryKeys |-> 0]]
\* the draft resetForm installs
EmpFormReset ==
  [name |-> "", designation |-> "",
   salary_components |-> [k \in SalaryKeys \cup {"home_collection_visit"} |-> 0]]
EmpInit == [employees |-> <<>>, loading |-> TRUE, dialogOpen |-> FALSE,
            editingEmployee |-> NullEmployee, deleteDialogOpen |-> FALSE,
            employeeToDelete |-> NullEmployee, formData |-> EmpFormInit]

PromoFormInit ==
  [employee_id |-> "", new_designation |-> "", promotion_date |-> "",
   new_salary_components |-> [k \in SalaryKeys |-> 0]]
PromoInit == [promotions |-> <<>>, employees |-> <<>>, loading |-> TRUE,
              dialogOpen |-> FALSE, formData |-> PromoFormInit]

CurrentYear == <<"2", "0", "2", "5">>
PayFormInit ==
  [employee_id |-> "", month |-> <<>>, year |-> CurrentYear,
   paid_days |-> <<"3", "0">>, lop_days |-> <<"0">>,
   home_collection_visit |-> <<"0">>]
PayEditInit == [paid_days |-> <<"3", "0">>, lop_days |-> <<"0">>]
PayInit == [payslips |-> <<>>, employees |-> <<>>, loading |-> TRUE,
            dialogOpen |-> FALSE, editingPayslip |-> Null,
            editFormData |-> PayEditInit, formData |-> PayFormInit]

NoToast == [kind |-> "none", msg |-> ""]
Toast(k, m) == [kind |-> k, msg |-> m]

(***************************************************************************)
(* Network log and processes.                                              *)
(***************************************************************************)
\* a request as the network log shows it; `by` is the id of the handler
\* invocation that issued it (the log index of that handler's first request)
Req(by, method, url, body) ==
  [by |-> by, method |-> method, url |-> url, body |-> body, status |-> "pending"]

NoBody == [none |-> TRUE]

SetStatus(l, i, st) == [l EXCEPT ![i].status = st]

\* the handler invocations that appear in log l: the entries that are the
\* first request of their handler
Started(l) == {i \in 1..Len(l) : l[i].by = i}
\* the urls of the list loads
ListUrls == {<<"dashboard", "stats">>, <<"employees">>, <<"promotions">>, <<"payslips">>}
\* those that are mount effects, those the user started
Mounts(l) == {i \in Started(l) : l[i].method = "GET" /\ l[i].url \in ListUrls}
CanStart == Cardinality(Started(log) \ Mounts(log)) < MaxHandlers
CanMount == Cardinality(Mounts(log)) < MaxMounts

\* the requests the mount effect of a view issues (its first list load)
FetchRequests(view, by) ==
  CASE view = "Dashboard"  -> <<Req(by, "GET", <<"dashboard", "stats">>, NoBody)>>
    [] view = "Employees"  -> <<Req(by, "GET", <<"employees">>, NoBody)>>
    [] view = "Promotions" -> <<Req(by, "GET", <<"promotions">>, NoBody),
                                Req(by, "GET", <<"employees">>, NoBody)>>
    [] view = "Payslips"   -> <<Req(by, "GET", <<"payslips">>, NoBody),
                                Req(by, "GET", <<"employees">>, NoBody)>>
    [] OTHER               -> <<>>

\* the process that awaits them (Promise.all for two requests); `first` is
\* the log index of its first request, `arrived` the offsets of the requests
\* answered so far and data0/data1 their bodies
FetchProc(view, first, stale) ==
  [kind |-> "fetch", view |-> view, stale |-> stale, first |-> first,
   arrived |-> {}, data0 |-> <<>>, data1 |-> <<>>]

ListViews == {"Dashboard", "Employees", "Promotions", "Payslips"}

AddProc(ps, id, p) == [i \in DOMAIN ps \cup {id} |-> IF i = id THEN p ELSE ps[i]]
DropProc(ps, id) == [i \in DOMAIN ps \ {id} |-> ps[i]]
StaleAll(ps) == [i \in DOMAIN ps |-> [ps[i] EXCEPT !.stale = TRUE]]
NoProcs == [i \in {} |-> 0]

\* a fetch of `view` started by handler `by` (by = 0: a mount effect, which
\* is its own handler): appended to log l and process table ps; a fetch
\* started by a handler of an unmounted component instance is detached too
StartFetchLog(l, view, by) ==
  l \o FetchRequests(view, IF by = 0 THEN Len(l) + 1 ELSE by)
StartFetchProcs(ps, l, view, stale) ==
  IF view \in ListViews
  THEN AddProc(ps, Len(l) + 1, FetchProc(view, Len(l) + 1, stale))
  ELSE ps

(***************************************************************************)
(* App.js: session and routing.                                            *)
(***************************************************************************)
\* The router renders `p` for a session state `auth`: <Navigate> elements
\* are followed, and when the rendered view changes the old view unmounts
\* (its state is discarded, its pending handlers keep running detached) and
\* the new view mounts and runs its mount effect.  ps and l are the process
\* table and the log as the calling action leaves them.
Settle(p, auth, ps, l) ==
  LET np == Resolve(p, auth)
      nv == RouteElement(np, auth).view
  IN  /\ path' = np
      /\ IF nv # View
         THEN /\ login' = LoginInit /\ settings' = SettingsInit
              /\ dash' = DashInit /\ emp' = EmpInit
              /\ promo' = PromoInit /\ pay' = PayInit
              /\ procs' = StartFetchProcs(StaleAll(ps), l, nv, FALSE)
              /\ log' = StartFetchLog(l, nv, 0)
         ELSE /\ UNCHANGED viewVars
              /\ procs' = ps
              /\ log' = l

\* an App that renders its routes before the token check: the guard sees
\* isAuthenticated false and navigates, and the flag is set afterwards
StartupCheckAfterRoutes ==
  /\ isLoading
  /\ isAuthenticated' = IF Truthy(storage.token) THEN TRUE ELSE isAuthenticated
  /\ isLoading' = FALSE
  /\ Settle(Resolve(path, isAuthenticated), isAuthenticated', procs, log)
  /\ UNCHANGED <<storage, toast, saved, dbVars>>

\* useEffect(() => {...}, []) of App: the startup token check
StartupCheck ==
  /\ isLoading
  /\ isAuthenticated' = IF Truthy(storage.token) THEN TRUE ELSE isAuthenticated
  /\ isLoading' = FALSE
  /\ Settle(path, isAuthenticated', procs, log)
  /\ UNCHANGED <<storage, toast, saved, dbVars>>

\* handleLogin(token, username), as called by Login on a successful response
handleLogin(token, username) ==
  /\ storage' = [token |-> StorageString(token), username |-> StorageString(username)]
  /\ isAuthenticated' = TRUE

\* a handleLogout that leaves the username in storage
handleLogoutKeepName ==
  /\ ~isLoading /\ View \in ListViews \cup {"Settings"}
  /\ storage' = [storage EXCEPT !.token = Null]
  /\ isAuthenticated' = FALSE
  /\ Settle(path, FALSE, procs, log)
  /\ UNCHANGED <<isLoading, toast, saved, dbVars>>

\* handleLogout, the Logout button of Layout
handleLogout ==
  /\ ~isLoading /\ View \in ListViews \cup {"Settings"}
  /\ storage' = [token |-> Null, username |-> Null]
  /\ isAuthenticated' = FALSE
  /\ Settle(path, FALSE, procs, log)
  /\ UNCHANGED <<isLoading, toast, saved, dbVars>>

\* client-side navigation to path p: a NavLink of Layout, or the history
\* buttons of the browser
Goto(p) ==
  /\ ~isLoading
  /\ p \in Paths
  /\ LET v == RouteElement(Resolve(p, isAuthenticated), isAuthenticated).view
     IN  v \in ListViews /\ v # View => CanMount
  /\ Settle(p, isAuthenticated, procs, log)
  /\ UNCHANGED <<storage, isAuthenticated, isLoading, toast, saved, dbVars>>

\* the page is loaded anew at path p (reload, or a URL typed in): the
\* component tree, its pending handlers and the page's log start afresh
Reload(p) ==
  /\ p \in Paths
  /\ isAuthenticated' = FALSE
  /\ isLoading' = TRUE
  /\ path' = p
  /\ login' = LoginInit /\ settings' = SettingsInit /\ dash' = DashInit
  /\ emp' = EmpInit /\ promo' = PromoInit /\ pay' = PayInit
  /\ procs' = NoProcs
  /\ log' = <<>>
  /\ toast' = NoToast
  /\ UNCHANGED <<storage, saved, dbVars>>

(***************************************************************************)
(* Login.                                                                  *)
(***************************************************************************)
LoginSetUsername(v) ==
  /\ View = "Login" /\ v # login.username
  /\ login' = [login EXCEPT !.username = v]
  /\ UNCHANGED <<appVars, settings, dash, emp, promo, pay, procs, log, toast, saved, dbVars>>

LoginSetPassword(v) ==
  /\ View = "Login" /\ v # login.password
  /\ login' = [login EXCEPT !.password = v]
  /\ UNCHANGED <<appVars, settings, dash, emp, promo, pay, procs, log, toast, saved, dbVars>>

\* Login.handleSubmit up to its await; both inputs are `required` and the
\* button is disabled while loading
LoginSubmit ==
  /\ View = "Login" /\ ~login.loading
  /\ login.username # "" /\ login.password # ""
  /\ CanStart
  /\ login' = [login EXCEPT !.loading = TRUE]
  /\ log' = Append(log, Req(Len(log) + 1, "POST", <<"auth", "login">>,
                            [username |-> login.username, password |-> login.password]))
  /\ procs' = AddProc(procs, Len(log) + 1, [kind |-> "login", stale |-> FALSE])
  /\ UNCHANGED <<appVars, settings, dash, emp, promo, pay, toast, saved, dbVars>>

\* Login.handleSubmit after the await, response ok: onLogin, then finally
LoginOk(id, token, username) ==
  /\ id \in DOMAIN procs /\ procs[id].kind = "login"
  /\ toast' = Toast("success", "Login successful!")
  /\ handleLogin(token, username)
  /\ Settle(path, TRUE, DropProc(procs, id), SetStatus(log, id, "ok"))
  /\ UNCHANGED <<isLoading, saved, dbVars>>

\* Login.handleSubmit after the await, request failed
LoginFail(id, detail) ==
  /\ id \in DOMAIN procs /\ procs[id].kind = "login"
  /\ toast' = Toast("error", DetailOr(detail, "Login failed"))
  /\ login' = IF procs[id].stale THEN login ELSE [login EXCEPT !.loading = FALSE]
  /\ procs' = DropProc(procs, id)
  /\ log' = SetStatus(log, id, "fail")
  /\ UNCHANGED <<appVars, settings, dash, emp, promo, pay, saved, dbVars>>

(***************************************************************************)
(* Settings.                                                               *)
(***************************************************************************)
\* the onChange of the four inputs; confirm_password is disabled while
\* new_password is empty
SettingsSetField(f, v) ==
  /\ View = "Settings"
  /\ f \in DOMAIN SettingsFormInit
  /\ v # settings.formData[f]
  /\ f = "confirm_password" => settings.formData.new_password # ""
  /\ settings' = [settings EXCEPT !.formData[f] = v]
  /\ UNCHANGED <<appVars, login, dash, emp, promo, pay, procs, log, toast, saved, dbVars>>

\* a payload that carries the three fields as they are
CredentialsPayloadAsTyped(fd) ==
  [current_password |-> fd.current_password,
   new_username |-> fd.new_username,
   new_password |-> fd.new_password]

\* the object literal passed to axios.put
CredentialsPayload(fd) ==
  [current_password |-> fd.current_password,
   new_username |-> IF fd.new_username # "" THEN fd.new_username ELSE Undefined,
   new_password |-> IF fd.new_password # "" THEN fd.new_password ELSE Undefined]

\* a handleSubmit without the comparison of the two passwords
SettingsSubmitNoCheck ==
  /\ View = "Settings" /\ ~settings.loading
  /\ settings.formData.current_password # ""
  /\ CanStart
  /\ settings' = [settings EXCEPT !.loading = TRUE]
  /\ log' = Append(log, Req(Len(log) + 1, "PUT", <<"admin", "credentials">>,
                            JsonBody(CredentialsPayload(settings.formData))))
  /\ procs' = AddProc(procs, Len(log) + 1,
                      [kind |-> "credentials", stale |-> FALSE,
                       formData |-> settings.formData])
  /\ UNCHANGED <<appVars, login, dash, emp, promo, pay, toast, saved, dbVars>>

\* Settings.handleSubmit up to its await; current_password is `required`
SettingsSubmit ==
  /\ View = "Settings" /\ ~settings.loading
  /\ settings.formData.current_password # ""
  /\ IF settings.formData.new_password # settings.formData.confirm_password
     THEN /\ toast' = Toast("error", "New password and confirm password do not match")
          /\ UNCHANGED <<settings, procs, log>>
     ELSE /\ CanStart
          /\ settings' = [settings EXCEPT !.loading = TRUE]
          /\ log' = Append(log, Req(Len(log) + 1, "PUT", <<"admin", "credentials">>,
                                    JsonBody(CredentialsPayload(settings.formData))))
          /\ procs' = AddProc(procs, Len(log) + 1,
                              [kind |-> "credentials", stale |-> FALSE,
                               formData |-> settings.formData])
          /\ UNCHANGED toast
  /\ UNCHANGED <<appVars, login, dash, emp, promo, pay, saved, dbVars>>

\* Settings.handleSubmit after the await, response ok
SettingsOk(id) ==
  /\ id \in DOMAIN procs /\ procs[id].kind = "credentials"
  /\ toast' = Toast("success", "Admin credentials updated successfully")
  /\ storage' = IF procs[id].formData.new_username # ""
                THEN [storage EXCEPT !.username = procs[id].formData.new_username]
                ELSE storage
  /\ settings' = IF procs[id].stale THEN settings
                 ELSE [formData |-> SettingsFormInit, loading |-> FALSE]
  /\ procs' = DropProc(procs, id)
  /\ log' = SetStatus(log, id, "ok")
  /\ UNCHANGED <<isAuthenticated, isLoading, path, login, dash, emp, promo, pay, saved, dbVars>>

\* Settings.handleSubmit after the await, request failed
SettingsFail(id, detail) ==
  /\ id \in DOMAIN procs /\ procs[id].kind = "credentials"
  /\ toast' = Toast("error", DetailOr(detail, "Failed to update credentials"))
  /\ settings' = IF procs[id].stale THEN settings ELSE [settings EXCEPT !.loading = FALSE]
  /\ procs' = DropProc(procs, id)
  /\ log' = SetStatus(log, id, "fail")
  /\ UNCHANGED <<appVars, login, dash, emp, promo, pay, saved, dbVars>>

(***************************************************************************)
(* Dashboard.                                                              *)
(***************************************************************************)
\* fetchStats after the await, response ok
FetchStatsOk(id, body) ==
  /\ id \in DOMAIN procs /\ procs[id].kind = "fetch" /\ procs[id].view = "Dashboard"
  /\ dash' = IF procs[id].stale THEN dash ELSE [stats |-> body, loading |-> FALSE]
  /\ procs' = DropProc(procs, id)
  /\ log' = SetStatus(log, procs[id].first, "ok")
  /\ UNCHANGED <<appVars, login, settings, emp, promo, pay, toast, saved, dbVars>>

\* fetchStats after the await, request failed with `detail` in the error
\* body: console.error only
FetchStatsFail(id, detail) ==
  /\ id \in DOMAIN procs /\ procs[id].kind = "fetch" /\ procs[id].view = "Dashboard"
  /\ dash' = IF procs[id].stale THEN dash ELSE [dash EXCEPT !.loading = FALSE]
  /\ procs' = DropProc(procs, id)
  /\ log' = SetStatus(log, procs[id].first, "fail")
  /\ UNCHANGED <<appVars, login, settings, emp, promo, pay, toast, saved, dbVars>>

(***************************************************************************)
(* Employees.                                                              *)
(***************************************************************************)
\* text inputs of the employee form (all `required`)
EmpTextFields == {"name", "designation"}

\* the table and the dialog trigger of a page are rendered and not covered
\* by a modal
PageActive(view) ==
  /\ View = view
  /\ view = "Employees" => ~emp.loading /\ ~emp.dialogOpen /\ ~emp.deleteDialogOpen
  /\ view = "Promotions" => ~promo.loading /\ ~promo.dialogOpen
  /\ view = "Payslips" => ~pay.loading /\ ~pay.dialogOpen

\* resetForm of Employees
EmpResetForm(e) == [e EXCEPT !.formData = EmpFormReset, !.editingEmployee = NullEmployee]

\* a fetchEmployees that drops a response when a load issued after it has
\* already been applied
FetchEmployeesOkLatest(id, body) ==
  /\ id \in DOMAIN procs /\ procs[id].kind = "fetch" /\ procs[id].view = "Employees"
  /\ emp' = IF procs[id].stale
               \/ \E j \in (procs[id].first + 1)..Len(log) :
                     log[j].method = "GET" /\ log[j].status = "ok"
            THEN emp
            ELSE [emp EXCEPT !.employees = body, !.loading = FALSE]
  /\ procs' = DropProc(procs, id)
  /\ log' = SetStatus(log, procs[id].first, "ok")
  /\ UNCHANGED <<appVars, login, settings, dash, promo, pay, toast, saved, dbVars>>

\* fetchEmployees after the await, response ok
FetchEmployeesOk(id, body) ==
  /\ id \in DOMAIN procs /\ procs[id].kind = "fetch" /\ procs[id].view = "Employees"
  /\ emp' = IF procs[id].stale THEN emp
            ELSE [emp EXCEPT !.employees = body, !.loading = FALSE]
  /\ procs' = DropProc(procs, id)
  /\ log' = SetStatus(log, procs[id].first, "ok")
  /\ UNCHANGED <<appVars, login, settings, dash, promo, pay, toast, saved, dbVars>>

\* fetchEmployees after the await, request failed with `detail` in the error
\* body, which the catch does not read
FetchEmployeesFail(id, detail) ==
  /\ id \in DOMAIN procs /\ procs[id].kind = "fetch" /\ procs[id].view = "Employees"
  /\ toast' = Toast("error", "Failed to fetch employees")
  /\ emp' = IF procs[id].stale THEN emp ELSE [emp EXCEPT !.loading = FALSE]
  /\ procs' = DropProc(procs, id)
  /\ log' = SetStatus(log, procs[id].first, "fail")
  /\ UNCHANGED <<appVars, login, settings, dash, promo, pay, saved, dbVars>>

\* Dialog onOpenChange(true): the Add Employee trigger
EmpOpenDialog ==
  /\ PageActive("Employees")
  /\ emp' = [emp EXCEPT !.dialogOpen = TRUE]
  /\ UNCHANGED <<appVars, login, settings, dash, promo, pay, procs, log, toast, saved, dbVars>>

\* Dialog onOpenChange(false): Escape, the overlay or the close cross
EmpCloseDialog ==
  /\ View = "Employees" /\ emp.dialogOpen
  /\ emp' = EmpResetForm([emp EXCEPT !.dialogOpen = FALSE])
  /\ UNCHANGED <<appVars, login, settings, dash, promo, pay, procs, log, toast, saved, dbVars>>

\* the Cancel button: onClick={() => setDialogOpen(false)}
EmpCancel ==
  /\ View = "Employees" /\ emp.dialogOpen
  /\ emp' = [emp EXCEPT !.dialogOpen = FALSE]
  /\ UNCHANGED <<appVars, login, settings, dash, promo, pay, procs, log, toast, saved, dbVars>>

\* handleEdit(employee), the Edit button of a table row
handleEdit(i) ==
  /\ PageActive("Employees")
  /\ i \in 1..Len(emp.employees)
  /\ emp' = [emp EXCEPT !.editingEmployee = emp.employees[i],
                        !.formData = emp.employees[i],
                        !.dialogOpen = TRUE]
  /\ UNCHANGED <<appVars, login, settings, dash, promo, pay, procs, log, toast, saved, dbVars>>

\* handleInputChange
EmpInputChange(name, value) ==
  /\ View = "Employees" /\ emp.dialogOpen
  /\ name \in EmpTextFields
  /\ value # emp.formData[name]
  /\ emp' = [emp EXCEPT !.formData[name] = value]
  /\ UNCHANGED <<appVars, login, settings, dash, promo, pay, procs, log, toast, saved, dbVars>>

\* handleSalaryChange
EmpSalaryChange(name, value) ==
  /\ View = "Employees" /\ emp.dialogOpen
  /\ name \in SalaryKeys
  /\ OrZero(parseFloat(value)) # emp.formData.salary_components[name]
  /\ emp' = [emp EXCEPT !.formData.salary_components[name] = OrZero(parseFloat(value))]
  /\ UNCHANGED <<appVars, login, settings, dash, promo, pay, procs, log, toast, saved, dbVars>>

\* a handleSubmit that creates whatever the editing target is
EmpSubmitRequestPost(by, editing, fd) == Req(by, "POST", <<"employees">>, fd)

\* the request handleSubmit of Employees issues
EmpSubmitRequest(by, editing, fd) ==
  IF editing.id # NoId
  THEN Req(by, "PUT", <<"employees", editing.id>>, fd)
  ELSE Req(by, "POST", <<"employees">>, fd)

\* Employees.handleSubmit up to its await
EmpSubmit ==
  /\ View = "Employees" /\ emp.dialogOpen
  /\ \A f \in EmpTextFields : emp.formData[f] # ""
  /\ CanStart
  /\ log' = Append(log, EmpSubmitRequest(Len(log) + 1, emp.editingEmployee, emp.formData))
  /\ procs' = AddProc(procs, Len(log) + 1,
                      [kind |-> "empSubmit", stale |-> FALSE,
                       editing |-> emp.editingEmployee.id # NoId])
  /\ UNCHANGED <<appVars, viewVars, toast, saved, dbVars>>

\* Employees.handleSubmit after the await, response ok
EmpSubmitOk(id) ==
  /\ id \in DOMAIN procs /\ procs[id].kind = "empSubmit"
  /\ toast' = Toast("success", IF procs[id].editing THEN "Employee updated successfully"
                               ELSE "Employee created successfully")
  /\ emp' = IF procs[id].stale THEN emp
            ELSE EmpResetForm([emp EXCEPT !.dialogOpen = FALSE])
  /\ LET l == SetStatus(log, id, "ok")
     IN  /\ log' = StartFetchLog(l, "Employees", id)
         /\ procs' = StartFetchProcs(DropProc(procs, id), l, "Employees", procs[id].stale)
  /\ UNCHANGED <<appVars, login, settings, dash, promo, pay, saved, dbVars>>

\* a handleSubmit that closes the dialog and resets the form on failure too
EmpSubmitFailClose(id, detail) ==
  /\ id \in DOMAIN procs /\ procs[id].kind = "empSubmit"
  /\ toast' = Toast("error", DetailOr(detail, "Operation failed"))
  /\ emp' = EmpResetForm([emp EXCEPT !.dialogOpen = FALSE])
  /\ procs' = DropProc(procs, id)
  /\ log' = SetStatus(log, id, "fail")
  /\ UNCHANGED <<appVars, login, settings, dash, promo, pay, saved, dbVars>>

\* Employees.handleSubmit after the await, request failed
EmpSubmitFail(id, detail) ==
  /\ id \in DOMAIN procs /\ procs[id].kind = "empSubmit"
  /\ toast' = Toast("error", DetailOr(detail, "Operation failed"))
  /\ procs' = DropProc(procs, id)
  /\ log' = SetStatus(log, id, "fail")
  /\ UNCHANGED <<appVars, viewVars, saved, dbVars>>

\* handleDeleteClick(employee), the Delete button of a table row
handleDeleteClick(i) ==
  /\ PageActive("Employees")
  /\ i \in 1..Len(emp.employees)
  /\ emp' = [emp EXCEPT !.employeeToDelete = emp.employees[i],
                        !.deleteDialogOpen = TRUE]
  /\ UNCHANGED <<appVars, login, settings, dash, promo, pay, procs, log, toast, saved, dbVars>>

\* AlertDialog onOpenChange(false): its Cancel button or Escape
EmpCancelDelete ==
  /\ View = "Employees" /\ emp.deleteDialogOpen
  /\ emp' = [emp EXCEPT !.deleteDialogOpen = FALSE]
  /\ UNCHANGED <<appVars, login, settings, dash, promo, pay, procs, log, toast, saved, dbVars>>

\* handleDelete up to its await (AlertDialogAction also closes the dialog)
handleDelete ==
  /\ View = "Employees" /\ emp.deleteDialogOpen
  /\ CanStart
  /\ emp' = [emp EXCEPT !.deleteDialogOpen = FALSE]
  /\ log' = Append(log, Req(Len(log) + 1, "DELETE",
                            <<"employees", emp.employeeToDelete.id>>, NoBody))
  /\ procs' = AddProc(procs, Len(log) + 1, [kind |-> "empDelete", stale |-> FALSE])
  /\ UNCHANGED <<appVars, login, settings, dash, promo, pay, toast, saved, dbVars>>

\* handleDelete after the await, response ok
EmpDeleteOk(id) ==
  /\ id \in DOMAIN procs /\ procs[id].kind = "empDelete"
  /\ toast' = Toast("success", "Employee terminated successfully")
  /\ emp' = IF procs[id].stale THEN emp ELSE [emp EXCEPT !.deleteDialogOpen = FALSE]
  /\ LET l == SetStatus(log, id, "ok")
     IN  /\ log' = StartFetchLog(l, "Employees", id)
         /\ procs' = StartFetchProcs(DropProc(procs, id), l, "Employees", procs[id].stale)
  /\ UNCHANGED <<appVars, login, settings, dash, promo, pay, saved, dbVars>>

\* handleDelete after the await, request failed with `detail` in the error
\* body, which the catch does not read
EmpDeleteFail(id, detail) ==
  /\ id \in DOMAIN procs /\ procs[id].kind = "empDelete"
  /\ toast' = Toast("error", "Failed to terminate employee")
  /\ procs' = DropProc(procs, id)
  /\ log' = SetStatus(log, id, "fail")
  /\ UNCHANGED <<appVars, viewVars, saved, dbVars>>

(***************************************************************************)
(* Lists loaded with two parallel requests (Promotions, Payslips).         *)
(***************************************************************************)
\* a fetchData that installs each list as soon as its response arrives
FetchPartOkEager(id, k, body) ==
  /\ id \in DOMAIN procs /\ procs[id].kind = "fetch"
  /\ procs[id].view \in {"Promotions", "Payslips"}
  /\ k \in {0, 1} \ procs[id].arrived
  /\ log' = SetStatus(log, procs[id].first + k, "ok")
  /\ LET p == procs[id]
         last == p.arrived # {}
     IN  /\ procs' = IF last THEN DropProc(procs, id)
                     ELSE [procs EXCEPT ![id].arrived = {k}]
         /\ promo' = IF p.view = "Promotions" /\ ~p.stale
                     THEN [promo EXCEPT !.promotions = IF k = 0 THEN body ELSE @,
                                        !.employees = IF k = 1 THEN body ELSE @,
                                        !.loading = IF last THEN FALSE ELSE @]
                     ELSE promo
         /\ pay' = IF p.view = "Payslips" /\ ~p.stale
                   THEN [pay EXCEPT !.payslips = IF k = 0 THEN body ELSE @,
                                    !.employees = IF k = 1 THEN body ELSE @,
                                    !.loading = IF last THEN FALSE ELSE @]
                   ELSE pay
  /\ UNCHANGED <<appVars, login, settings, dash, emp, toast, saved, dbVars>>

\* fetchData: the request at offset k is answered ok with `body`; when both
\* have been, Promise.all resolves and the two lists are installed
FetchPartOk(id, k, body) ==
  /\ id \in DOMAIN procs /\ procs[id].kind = "fetch"
  /\ procs[id].view \in {"Promotions", "Payslips"}
  /\ k \in {0, 1} \ procs[id].arrived
  /\ log' = SetStatus(log, procs[id].first + k, "ok")
  /\ LET p  == procs[id]
         d0 == IF k = 0 THEN body ELSE p.data0
         d1 == IF k = 1 THEN body ELSE p.data1
     IN  IF p.arrived = {}
         THEN /\ procs' = [procs EXCEPT ![id].arrived = {k},
                                        ![id].data0 = d0, ![id].data1 = d1]
              /\ UNCHANGED <<promo, pay>>
         ELSE /\ procs' = DropProc(procs, id)
              /\ promo' = IF p.view = "Promotions" /\ ~p.stale
                          THEN [promo EXCEPT !.promotions = d0, !.employees = d1,
                                             !.loading = FALSE]
                          ELSE promo
              /\ pay' = IF p.view = "Payslips" /\ ~p.stale
                        THEN [pay EXCEPT !.payslips = d0, !.employees = d1,
                                         !.loading = FALSE]
                        ELSE pay
  /\ UNCHANGED <<appVars, login, settings, dash, emp, toast, saved, dbVars>>

\* a fetchData without the finally block: a failed load leaves loading as
\* it is
FetchPartFailNoFinally(id, k, detail) ==
  /\ id \in DOMAIN procs /\ procs[id].kind = "fetch"
  /\ procs[id].view \in {"Promotions", "Payslips"}
  /\ k \in {0, 1} \ procs[id].arrived
  /\ log' = SetStatus(log, procs[id].first + k, "fail")
  /\ toast' = Toast("error", "Failed to fetch data")
  /\ procs' = DropProc(procs, id)
  /\ UNCHANGED <<appVars, viewVars, saved, dbVars>>

\* fetchData: the request at offset k fails with `detail` in the error body,
\* which the catch does not read; Promise.all rejects at once
FetchPartFail(id, k, detail) ==
  /\ id \in DOMAIN procs /\ procs[id].kind = "fetch"
  /\ procs[id].view \in {"Promotions", "Payslips"}
  /\ k \in {0, 1} \ procs[id].arrived
  /\ log' = SetStatus(log, procs[id].first + k, "fail")
  /\ toast' = Toast("error", "Failed to fetch data")
  /\ promo' = IF procs[id].view = "Promotions" /\ ~procs[id].stale
              THEN [promo EXCEPT !.loading = FALSE] ELSE promo
  /\ pay' = IF procs[id].view = "Payslips" /\ ~procs[id].stale
            THEN [pay EXCEPT !.loading = FALSE] ELSE pay
  /\ procs' = DropProc(procs, id)
  /\ UNCHANGED <<appVars, login, settings, dash, emp, saved, dbVars>>

(***************************************************************************)
(* Promotions.                                                             *)
(***************************************************************************)
PromoTextFields == {"new_designation", "promotion_date"}
EmployeeIds == {"e1", "e2"}


\* resetForm of Promotions
PromoResetForm(v) == [v EXCEPT !.formData = PromoFormInit]

PromoOpenDialog ==
  /\ PageActive("Promotions")
  /\ promo' = [promo EXCEPT !.dialogOpen = TRUE]
  /\ UNCHANGED <<appVars, login, settings, dash, emp, pay, procs, log, toast, saved, dbVars>>

PromoCloseDialog ==
  /\ View = "Promotions" /\ promo.dialogOpen
  /\ promo' = PromoResetForm([promo EXCEPT !.dialogOpen = FALSE])
  /\ UNCHANGED <<appVars, login, settings, dash, emp, pay, procs, log, toast, saved, dbVars>>

PromoCancel ==
  /\ View = "Promotions" /\ promo.dialogOpen
  /\ promo' = [promo EXCEPT !.dialogOpen = FALSE]
  /\ UNCHANGED <<appVars, login, settings, dash, emp, pay, procs, log, toast, saved, dbVars>>

\* employees.find(e => e.id === employeeId): the index of the first match, 0 if none
FindEmployee(list, eid) ==
  LET hits == {i \in 1..Len(list) : list[i].id = eid}
  IN  IF hits = {} THEN 0 ELSE CHOOSE i \in hits : \A j \in hits : i <= j

\* handleEmployeeChange(employeeId)
handleEmployeeChange(eid) ==
  /\ View = "Promotions" /\ promo.dialogOpen
  /\ eid \in EmployeeIds
  /\ LET i == FindEmployee(promo.employees, eid)
     IN  promo' = IF i = 0 THEN promo
                  ELSE [promo EXCEPT
                          !.formData.employee_id = eid,
                          !.formData.new_designation = promo.employees[i].designation,
                          !.formData.new_salary_components =
                              promo.employees[i].salary_components]
  /\ UNCHANGED <<appVars, login, settings, dash, emp, pay, procs, log, toast, saved, dbVars>>

\* the onChange of new_designation and promotion_date
PromoInputChange(name, value) ==
  /\ View = "Promotions" /\ promo.dialogOpen
  /\ name \in PromoTextFields
  /\ value # promo.formData[name]
  /\ promo' = [promo EXCEPT !.formData[name] = value]
  /\ UNCHANGED <<appVars, login, settings, dash, emp, pay, procs, log, toast, saved, dbVars>>

\* a handleSalaryChange that writes into the salary components of the
\* selected employee of the list as well
PromoSalaryChangeShared(name, value) ==
  /\ View = "Promotions" /\ promo.dialogOpen
  /\ name \in SalaryKeys
  /\ OrZero(parseFloat(value)) # promo.formData.new_salary_components[name]
  /\ promo' = [promo EXCEPT
                 !.formData.new_salary_components[name] = OrZero(parseFloat(value)),
                 !.employees = [i \in DOMAIN promo.employees |->
                                  IF promo.employees[i].id = promo.formData.employee_id
                                  THEN [promo.employees[i] EXCEPT
                                          !.salary_components[name] =
                                              OrZero(parseFloat(value))]
                                  ELSE promo.employees[i]]]
  /\ UNCHANGED <<appVars, login, settings, dash, emp, pay, procs, log, toast, saved, dbVars>>

\* handleSalaryChange of Promotions
PromoSalaryChange(name, value) ==
  /\ View = "Promotions" /\ promo.dialogOpen
  /\ name \in SalaryKeys
  /\ OrZero(parseFloat(value)) # promo.formData.new_salary_components[name]
  /\ promo' = [promo EXCEPT !.formData.new_salary_components[name] =
                                OrZero(parseFloat(value))]
  /\ UNCHANGED <<appVars, login, settings, dash, emp, pay, procs, log, toast, saved, dbVars>>

\* Promotions.handleSubmit up to its await
PromoSubmit ==
  /\ View = "Promotions" /\ promo.dialogOpen
  /\ \A f \in PromoTextFields : promo.formData[f] # ""
  /\ CanStart
  /\ log' = Append(log, Req(Len(log) + 1, "POST", <<"promotions">>, promo.formData))
  /\ procs' = AddProc(procs, Len(log) + 1, [kind |-> "promoSubmit", stale |-> FALSE])
  /\ UNCHANGED <<appVars, viewVars, toast, saved, dbVars>>

\* a handleSubmit that does not reload the list
PromoSubmitOkNoRefetch(id) ==
  /\ id \in DOMAIN procs /\ procs[id].kind = "promoSubmit"
  /\ toast' = Toast("success", "Promotion created successfully")
  /\ promo' = IF procs[id].stale THEN promo
              ELSE PromoResetForm([promo EXCEPT !.dialogOpen = FALSE])
  /\ log' = SetStatus(log, id, "ok")
  /\ procs' = DropProc(procs, id)
  /\ UNCHANGED <<appVars, login, settings, dash, emp, pay, saved, dbVars>>

\* Promotions.handleSubmit after the await, response ok
PromoSubmitOk(id) ==
  /\ id \in DOMAIN procs /\ procs[id].kind = "promoSubmit"
  /\ toast' = Toast("success", "Promotion created successfully")
  /\ promo' = IF procs[id].stale THEN promo
              ELSE PromoResetForm([promo EXCEPT !.dialogOpen = FALSE])
  /\ LET l == SetStatus(log, id, "ok")
     IN  /\ log' = StartFetchLog(l, "Promotions", id)
         /\ procs' = StartFetchProcs(DropProc(procs, id), l, "Promotions", procs[id].stale)
  /\ UNCHANGED <<appVars, login, settings, dash, emp, pay, saved, dbVars>>

\* Promotions.handleSubmit after the await, request failed
PromoSubmitFail(id, detail) ==
  /\ id \in DOMAIN procs /\ procs[id].kind = "promoSubmit"
  /\ toast' = Toast("error", DetailOr(detail, "Failed to create promotion"))
  /\ procs' = DropProc(procs, id)
  /\ log' = SetStatus(log, id, "fail")
  /\ UNCHANGED <<appVars, viewVars, saved, dbVars>>

(***************************************************************************)
(* Payslips.                                                               *)
(***************************************************************************)
months == <<"January", "February", "March", "April", "May", "June", "July",
            "August", "September", "October", "November", "December">>
NoFile == <<>>


\* resetForm of Payslips
PayResetForm(v) == [v EXCEPT !.formData = PayFormInit]

PayOpenDialog ==
  /\ PageActive("Payslips")
  /\ pay' = [pay EXCEPT !.dialogOpen = TRUE]
  /\ UNCHANGED <<appVars, login, settings, dash, emp, promo, procs, log, toast, saved, dbVars>>

PayCloseDialog ==
  /\ View = "Payslips" /\ pay.dialogOpen
  /\ pay' = PayResetForm([pay EXCEPT !.dialogOpen = FALSE])
  /\ UNCHANGED <<appVars, login, settings, dash, emp, promo, procs, log, toast, saved, dbVars>>

PayCancel ==
  /\ View = "Payslips" /\ pay.dialogOpen
  /\ pay' = [pay EXCEPT !.dialogOpen = FALSE]
  /\ UNCHANGED <<appVars, login, settings, dash, emp, promo, procs, log, toast, saved, dbVars>>

\* the employee select: one of the listed employees
PaySelectEmployee(i) ==
  /\ View = "Payslips" /\ pay.dialogOpen
  /\ i \in 1..Len(pay.employees)
  /\ pay.employees[i].id # pay.formData.employee_id
  /\ pay' = [pay EXCEPT !.formData.employee_id = pay.employees[i].id]
  /\ UNCHANGED <<appVars, login, settings, dash, emp, promo, procs, log, toast, saved, dbVars>>

\* the month select and the number inputs of the generate form
PayInputChange(name, value) ==
  /\ View = "Payslips" /\ pay.dialogOpen
  /\ name \in {"month", "paid_days", "home_collection_visit"}
  /\ value # pay.formData[name]
  /\ pay' = [pay EXCEPT !.formData[name] = value]
  /\ UNCHANGED <<appVars, login, settings, dash, emp, promo, procs, log, toast, saved, dbVars>>

\* <input type="number" required min="0" max="31"> passes form validation
ValidDayInput(s) == parseInt(s) # NaN /\ parseInt(s) >= 0 /\ parseInt(s) <= 31

\* the payload of Payslips.handleSubmit
GeneratePayload(fd) ==
  [employee_id |-> fd.employee_id,
   month |-> parseInt(fd.month),
   year |-> parseInt(fd.year),
   paid_days |-> parseInt(fd.paid_days),
   lop_days |-> parseInt(fd.lop_days),
   home_collection_visit |-> OrZero(parseFloat(fd.home_collection_visit))]

\* Payslips.handleSubmit up to its await
PaySubmit ==
  /\ View = "Payslips" /\ pay.dialogOpen
  /\ ValidDayInput(pay.formData.paid_days) /\ ValidDayInput(pay.formData.lop_days)
  /\ CanStart
  /\ log' = Append(log, Req(Len(log) + 1, "POST", <<"payslips", "generate">>,
                            GeneratePayload(pay.formData)))
  /\ procs' = AddProc(procs, Len(log) + 1, [kind |-> "paySubmit", stale |-> FALSE])
  /\ UNCHANGED <<appVars, viewVars, toast, saved, dbVars>>

\* backend: a generate request it can accept
GenerateAccepted(body) ==
  /\ body.employee_id \in EmployeeIds
  /\ body.month \in 1..12
  /\ body.year # NaN /\ body.paid_days # NaN /\ body.lop_days # NaN

\* backend: the payslip a generate request creates
GeneratedPayslip(body, n) ==
  [id |-> PayslipIds[n], employee_id |-> body.employee_id,
   employee_no |-> EmployeeNoOf(body.employee_id),
   month |-> body.month, year |-> body.year,
   paid_days |-> body.paid_days, lop_days |-> body.lop_days,
   home_collection_visit |-> IF "home_collection_visit" \in DOMAIN body
                             THEN body.home_collection_visit ELSE 0]

\* backend: POST /payslips/generate succeeds
BackendGenerate(body) ==
  /\ GenerateAccepted(body)
  /\ dbIssued < Len(PayslipIds)
  /\ dbIssued' = dbIssued + 1
  /\ dbPayslips' = Append(dbPayslips, GeneratedPayslip(body, dbIssued + 1))

\* backend: DELETE /payslips/{id} succeeds
BackendDelete(pid) ==
  /\ dbPayslips' = SelectSeq(dbPayslips, LAMBDA p : p.id # pid)
  /\ UNCHANGED dbIssued

\* Payslips.handleSubmit after the await, response ok
PaySubmitOk(id) ==
  /\ id \in DOMAIN procs /\ procs[id].kind = "paySubmit"
  /\ BackendGenerate(log[id].body)
  /\ toast' = Toast("success", "Payslip generated successfully")
  /\ pay' = IF procs[id].stale THEN pay
            ELSE PayResetForm([pay EXCEPT !.dialogOpen = FALSE])
  /\ LET l == SetStatus(log, id, "ok")
     IN  /\ log' = StartFetchLog(l, "Payslips", id)
         /\ procs' = StartFetchProcs(DropProc(procs, id), l, "Payslips", procs[id].stale)
  /\ UNCHANGED <<appVars, login, settings, dash, emp, promo, saved>>

\* Payslips.handleSubmit after the await, request failed
PaySubmitFail(id, detail) ==
  /\ id \in DOMAIN procs /\ procs[id].kind = "paySubmit"
  /\ toast' = Toast("error", DetailOr(detail, "Failed to generate payslip"))
  /\ procs' = DropProc(procs, id)
  /\ log' = SetStatus(log, id, "fail")
  /\ UNCHANGED <<appVars, viewVars, saved, dbVars>>

\* a file name that takes the label of the month after the payslip's
DownloadNameNext(employeeNo, month, year) ==
  <<"payslip_", employeeNo, "_", months[(month % 12) + 1], "_", ToStr(year), ".pdf">>

\* the name handleDownload saves the file under
DownloadName(employeeNo, month, year) ==
  <<"payslip_", employeeNo, "_", months[month], "_", ToStr(year), ".pdf">>

\* handleDownload up to its await: the Download button of a row not in edit mode
handleDownload(i) ==
  /\ PageActive("Payslips")
  /\ i \in 1..Len(pay.payslips)
  /\ pay.editingPayslip # pay.payslips[i].id
  /\ CanStart
  /\ log' = Append(log, Req(Len(log) + 1, "GET",
                            <<"payslips", "download", pay.payslips[i].id>>, NoBody))
  /\ procs' = AddProc(procs, Len(log) + 1,
                      [kind |-> "download", stale |-> FALSE,
                       employeeNo |-> pay.payslips[i].employee_no,
                       month |-> pay.payslips[i].month,
                       year |-> pay.payslips[i].year])
  /\ UNCHANGED <<appVars, viewVars, toast, saved, dbVars>>

\* handleDownload after the await, response ok
DownloadOk(id) ==
  /\ id \in DOMAIN procs /\ procs[id].kind = "download"
  /\ saved' = DownloadName(procs[id].employeeNo, procs[id].month, procs[id].year)
  /\ toast' = Toast("success", "Payslip downloaded successfully")
  /\ procs' = DropProc(procs, id)
  /\ log' = SetStatus(log, id, "ok")
  /\ UNCHANGED <<appVars, viewVars, dbVars>>

\* a handleDownload that ends the session when its request fails
DownloadFailLogout(id, detail) ==
  /\ id \in DOMAIN procs /\ procs[id].kind = "download"
  /\ toast' = Toast("error", DetailOr(detail, "Failed to download payslip"))
  /\ storage' = [storage EXCEPT !.token = Null]
  /\ procs' = DropProc(procs, id)
  /\ log' = SetStatus(log, id, "fail")
  /\ UNCHANGED <<isAuthenticated, isLoading, path, viewVars, saved, dbVars>>

\* handleDownload after the await, request failed
DownloadFail(id, detail) ==
  /\ id \in DOMAIN procs /\ procs[id].kind = "download"
  /\ toast' = Toast("error", DetailOr(detail, "Failed to download payslip"))
  /\ procs' = DropProc(procs, id)
  /\ log' = SetStatus(log, id, "fail")
  /\ UNCHANGED <<appVars, viewVars, saved, dbVars>>

\* handleEditPayslip(payslip): the Edit button of a row not in edit mode
handleEditPayslip(i) ==
  /\ PageActive("Payslips")
  /\ i \in 1..Len(pay.payslips)
  /\ pay.editingPayslip # pay.payslips[i].id
  /\ pay' = [pay EXCEPT !.editingPayslip = pay.payslips[i].id,
                        !.editFormData = [paid_days |-> ToStr(pay.payslips[i].paid_days),
                                          lop_days |-> ToStr(pay.payslips[i].lop_days)]]
  /\ UNCHANGED <<appVars, login, settings, dash, emp, promo, procs, log, toast, saved, dbVars>>

\* the row in edit mode, 0 if no rendered row is
EditRow ==
  LET rows == {i \in 1..Len(pay.payslips) : pay.payslips[i].id = pay.editingPayslip}
  IN  IF rows = {} THEN 0 ELSE CHOOSE i \in rows : TRUE

\* handleCancelEdit: the Cancel button of the row in edit mode
handleCancelEdit ==
  /\ PageActive("Payslips") /\ EditRow # 0
  /\ pay' = [pay EXCEPT !.editingPayslip = Null, !.editFormData = PayEditInit]
  /\ UNCHANGED <<appVars, login, settings, dash, emp, promo, procs, log, toast, saved, dbVars>>

\* the two inputs of the row in edit mode
PayEditInputChange(name, value) ==
  /\ PageActive("Payslips") /\ EditRow # 0
  /\ name \in DOMAIN PayEditInit
  /\ value # pay.editFormData[name]
  /\ pay' = [pay EXCEPT !.editFormData[name] = value]
  /\ UNCHANGED <<appVars, login, settings, dash, emp, promo, procs, log, toast, saved, dbVars>>

\* a payload that carries the payslip's home_collection_visit over as well
SaveEditPayloadCarry(payslip, efd) ==
  [employee_id |-> payslip.employee_id,
   month |-> payslip.month,
   year |-> payslip.year,
   paid_days |-> parseInt(efd.paid_days),
   lop_days |-> parseInt(efd.lop_days),
   home_collection_visit |-> payslip.home_collection_visit]

\* the payload handleSaveEdit regenerates the payslip with
SaveEditPayload(payslip, efd) ==
  [employee_id |-> payslip.employee_id,
   month |-> payslip.month,
   year |-> payslip.year,
   paid_days |-> parseInt(efd.paid_days),
   lop_days |-> parseInt(efd.lop_days)]

\* handleSaveEdit(payslip) up to its first await: the Save button of the row
\* in edit mode
handleSaveEdit ==
  /\ PageActive("Payslips") /\ EditRow # 0
  /\ CanStart
  /\ log' = Append(log, Req(Len(log) + 1, "DELETE",
                            <<"payslips", pay.payslips[EditRow].id>>, NoBody))
  /\ procs' = AddProc(procs, Len(log) + 1,
                      [kind |-> "saveEdit", stale |-> FALSE, pc |-> "delete",
                       payslip |-> pay.payslips[EditRow],
                       editFormData |-> pay.editFormData, req |-> Len(log) + 1])
  /\ UNCHANGED <<appVars, viewVars, toast, saved, dbVars>>

\* handleSaveEdit after the first await, delete ok: the generate request
SaveDeleteOk(id) ==
  /\ id \in DOMAIN procs /\ procs[id].kind = "saveEdit" /\ procs[id].pc = "delete"
  /\ BackendDelete(procs[id].payslip.id)
  /\ log' = Append(SetStatus(log, id, "ok"),
                   Req(id, "POST", <<"payslips", "generate">>,
                       SaveEditPayload(procs[id].payslip, procs[id].editFormData)))
  /\ procs' = [procs EXCEPT ![id].pc = "generate", ![id].req = Len(log) + 1]
  /\ UNCHANGED <<appVars, viewVars, toast, saved>>

\* a handleSaveEdit that goes on to generate although the delete failed
SaveDeleteFailGenerate(id, detail) ==
  /\ id \in DOMAIN procs /\ procs[id].kind = "saveEdit" /\ procs[id].pc = "delete"
  /\ log' = Append(SetStatus(log, id, "fail"),
                   Req(id, "POST", <<"payslips", "generate">>,
                       SaveEditPayload(procs[id].payslip, procs[id].editFormData)))
  /\ procs' = [procs EXCEPT ![id].pc = "generate", ![id].req = Len(log) + 1]
  /\ UNCHANGED <<appVars, viewVars, toast, saved, dbVars>>

\* handleSaveEdit after the first await, delete failed
SaveDeleteFail(id, detail) ==
  /\ id \in DOMAIN procs /\ procs[id].kind = "saveEdit" /\ procs[id].pc = "delete"
  /\ toast' = Toast("error", DetailOr(detail, "Failed to update payslip"))
  /\ procs' = DropProc(procs, id)
  /\ log' = SetStatus(log, id, "fail")
  /\ UNCHANGED <<appVars, viewVars, saved, dbVars>>

\* handleSaveEdit after the second await, generate ok
SaveGenerateOk(id) ==
  /\ id \in DOMAIN procs /\ procs[id].kind = "saveEdit" /\ procs[id].pc = "generate"
  /\ BackendGenerate(log[procs[id].req].body)
  /\ toast' = Toast("success", "Payslip updated successfully")
  /\ pay' = IF procs[id].stale THEN pay ELSE [pay EXCEPT !.editingPayslip = Null]
  /\ LET l == SetStatus(log, procs[id].req, "ok")
     IN  /\ log' = StartFetchLog(l, "Payslips", id)
         /\ procs' = StartFetchProcs(DropProc(procs, id), l, "Payslips", procs[id].stale)
  /\ UNCHANGED <<appVars, login, settings, dash, emp, promo, saved>>

\* a handleSaveEdit that reloads the list when the generate failed
SaveGenerateFailRefetch(id, detail) ==
  /\ id \in DOMAIN procs /\ procs[id].kind = "saveEdit" /\ procs[id].pc = "generate"
  /\ toast' = Toast("error", DetailOr(detail, "Failed to update payslip"))
  /\ LET l == SetStatus(log, procs[id].req, "fail")
     IN  /\ log' = StartFetchLog(l, "Payslips", id)
         /\ procs' = StartFetchProcs(DropProc(procs, id), l, "Payslips", procs[id].stale)
  /\ UNCHANGED <<appVars, viewVars, saved, dbVars>>

\* handleSaveEdit after the second await, generate failed
SaveGenerateFail(id, detail) ==
  /\ id \in DOMAIN procs /\ procs[id].kind = "saveEdit" /\ procs[id].pc = "generate"
  /\ toast' = Toast("error", DetailOr(detail, "Failed to update payslip"))
  /\ procs' = DropProc(procs, id)
  /\ log' = SetStatus(log, procs[id].req, "fail")
  /\ UNCHANGED <<appVars, viewVars, saved, dbVars>>

(***************************************************************************)
(* The application.                                                        *)
(***************************************************************************)
NoSession == [token |-> Null, username |-> Null]

\* a page load in a browser with no stored session
Init ==
  /\ storage = NoSession
  /\ isAuthenticated = FALSE
  /\ isLoading = TRUE
  /\ path \in Paths
  /\ login = LoginInit /\ settings = SettingsInit /\ dash = DashInit
  /\ emp = EmpInit /\ promo = PromoInit /\ pay = PayInit
  /\ procs = NoProcs
  /\ log = <<>>
  /\ toast = NoToast
  /\ saved = NoFile
  /\ dbPayslips = <<P1>>
  /\ dbIssued = 1

NextApp ==
  \/ StartupCheck
  \/ handleLogout
  \/ \E p \in Paths : Goto(p)
  \/ \E p \in Paths : Reload(p)

NextLogin ==
  \/ \E v \in Typed.username : LoginSetUsername(v)
  \/ \E v \in Typed.password : LoginSetPassword(v)
  \/ LoginSubmit
  \/ \E id \in DOMAIN procs, r \in LoginResponses : LoginOk(id, r.token, r.username)
  \/ \E id \in DOMAIN procs, d \in ErrDetails : LoginFail(id, d)

\* the state right after the startup check of a page load at path p with a
\* stored session: the view at p has just mounted and its first load is
\* in flight
StoredSession == [token |-> "tok1", username |-> "admin"]
MountedAt(p) ==
  /\ storage = StoredSession
  /\ isAuthenticated = TRUE
  /\ isLoading = FALSE
  /\ path = p
  /\ login = LoginInit /\ settings = SettingsInit /\ dash = DashInit
  /\ emp = EmpInit /\ promo = PromoInit /\ pay = PayInit
  /\ procs = StartFetchProcs(NoProcs, <<>>, ChildViews[p], FALSE)
  /\ log = StartFetchLog(<<>>, ChildViews[p], 0)
  /\ toast = NoToast
  /\ saved = NoFile
  /\ dbPayslips = <<P1>>
  /\ dbIssued = 1

\* the bodies the list endpoints answer with in the specifications below
FetchBody(view, k) ==
  IF k = 1 THEN <<E1, E2>>
  ELSE IF view = "Promotions" THEN <<Pr1>> ELSE dbPayslips

NextPairLoads ==
  \/ \E id \in {i \in DOMAIN procs : procs[i].kind = "fetch"}, k \in {0, 1} :
        FetchPartOk(id, k, FetchBody(procs[id].view, k))
  \/ \E id \in DOMAIN procs, k \in {0, 1}, d \in ErrDetails : FetchPartFail(id, k, d)

NextListLoads ==
  \/ \E id \in DOMAIN procs : FetchEmployeesOk(id, <<E1, E2>>)
  \/ \E id \in DOMAIN procs, d \in ErrDetails : FetchEmployeesFail(id, d)
  \/ NextPairLoads

\* the session, the router, the list loads of every view, the credential
\* change and the downloads
NextSession ==
  \/ NextApp
  \/ NextLogin
  \/ \E f \in {"current_password", "new_username"} :
        \E v \in Typed[f] : SettingsSetField(f, v)
  \/ SettingsSubmit
  \/ \E id \in DOMAIN procs : SettingsOk(id)
  \/ \E id \in DOMAIN procs : SettingsFail(id, Undefined)
  \/ \E id \in DOMAIN procs : FetchStatsOk(id, Stats1)
  \/ \E id \in DOMAIN procs, d \in ErrDetails : FetchStatsFail(id, d)
  \/ NextListLoads
  \/ \E i \in 1..Len(pay.payslips) : handleDownload(i)
  \/ \E id \in DOMAIN procs : DownloadOk(id)
  \/ \E id \in DOMAIN procs : DownloadFail(id, Undefined)

SpecSession == Init /\ [][NextSession]_vars

\* the credential form of the Settings page
NextSettings ==
  \/ \E f \in DOMAIN SettingsFormInit : \E v \in Typed[f] : SettingsSetField(f, v)
  \/ SettingsSubmit
  \/ \E id \in DOMAIN procs : SettingsOk(id)
  \/ \E id \in DOMAIN procs, d \in ErrDetails : SettingsFail(id, d)

SpecSettings == MountedAt("/settings") /\ [][NextSettings]_vars

\* backend: the answer to the GET /employees at index i of log l, in the
\* specification below: the employees that were not terminated when the
\* request was issued.  The terminations known to have succeeded by then are
\* those whose handler had issued its refetch.
Answer(l, i) ==
  SelectSeq(<<E1, E2>>,
            LAMBDA e : ~\E j \in 1..i :
                          /\ l[j].method = "GET" /\ l[j].by # j
                          /\ l[l[j].by].url = <<"employees", e.id>>)

\* the Employees page: its loads and the termination of employees
NextTerminate ==
  \/ \E id \in {i \in DOMAIN procs : procs[i].kind = "fetch"} :
        FetchEmployeesOk(id, Answer(log, procs[id].first))
  \/ \E id \in DOMAIN procs, d \in ErrDetails : FetchEmployeesFail(id, d)
  \/ \E i \in 1..Len(emp.employees) : handleDeleteClick(i)
  \/ EmpCancelDelete
  \/ handleDelete
  \/ \E id \in DOMAIN procs : EmpDeleteOk(id)
  \/ \E id \in DOMAIN procs, d \in ErrDetails : EmpDeleteFail(id, d)

SpecTerminate == MountedAt("/employees") /\ [][NextTerminate]_vars

\* the Promotions page: its loads and the promotion form
NextPromote ==
  \/ NextPairLoads
  \/ PromoOpenDialog
  \/ PromoCloseDialog
  \/ PromoCancel
  \/ \E e \in EmployeeIds : handleEmployeeChange(e)
  \/ \E v \in Typed.text : PromoInputChange("promotion_date", v)
  \/ \E v \in Typed.salary : PromoSalaryChange("basic", v)
  \/ PromoSubmit
  \/ \E id \in DOMAIN procs : PromoSubmitOk(id)
  \/ \E id \in DOMAIN procs, d \in ErrDetails : PromoSubmitFail(id, d)

SpecPromote == MountedAt("/promotions") /\ [][NextPromote]_vars

\* the longest network log of a page of the specification below: a handler
\* the user starts issues one request, a login mounts the Dashboard, and
\* the first mount and every mount of a navigation issue two at most
MaxLogLen == 2 * MaxHandlers + 2 * MaxMounts + 2

\* the request handler `id` awaits is answered, with success or failure
Completes(id) ==
  /\ id \in DOMAIN procs
  /\ \/ \E r \in LoginResponses : LoginOk(id, r.token, r.username)
     \/ \E d \in ErrDetails : LoginFail(id, d)
     \/ SettingsOk(id)
     \/ \E d \in ErrDetails : SettingsFail(id, d)
     \/ FetchStatsOk(id, Stats1)
     \/ \E d \in ErrDetails : FetchStatsFail(id, d)
     \/ FetchEmployeesOk(id, <<E1, E2>>)
     \/ \E d \in ErrDetails : FetchEmployeesFail(id, d)
     \/ /\ procs[id].kind = "fetch"
        /\ \E k \in {0, 1} : FetchPartOk(id, k, FetchBody(procs[id].view, k))
     \/ \E k \in {0, 1}, d \in ErrDetails : FetchPartFail(id, k, d)

\* the pages with a loading flag: the session, the navigation, the Login
\* and Settings submits and the first load of every list view
NextLoading ==
  \/ StartupCheck
  \/ handleLogout
  \/ \E p \in Paths : Goto(p)
  \/ \E v \in Typed.username \ {""} : LoginSetUsername(v)
  \/ \E v \in Typed.password \ {""} : LoginSetPassword(v)
  \/ LoginSubmit
  \/ \E v \in Typed.current_password \ {""} : SettingsSetField("current_password", v)
  \/ SettingsSubmit
  \/ \E id \in 1..MaxLogLen : Completes(id)

\* every request issued is answered eventually
Answered == \A id \in 1..MaxLogLen : WF_vars(Completes(id))

SpecLoading ==
  /\ Init \/ \E p \in DOMAIN ChildViews : MountedAt(p)
  /\ [][NextLoading]_vars
  /\ Answered

\* the create and edit forms of the Employees, Promotions and Payslips pages
NextForms ==
  \/ NextListLoads
  \/ EmpOpenDialog
  \/ EmpCloseDialog
  \/ EmpCancel
  \/ \E i \in 1..Len(emp.employees) : handleEdit(i)
  \/ \E f \in EmpTextFields, v \in Typed.text : EmpInputChange(f, v)
  \/ EmpSubmit
  \/ \E id \in DOMAIN procs : EmpSubmitOk(id)
  \/ \E id \in DOMAIN procs, d \in ErrDetails : EmpSubmitFail(id, d)
  \/ PromoOpenDialog
  \/ PromoCloseDialog
  \/ PromoCancel
  \/ \E e \in EmployeeIds : handleEmployeeChange(e)
  \/ \E f \in PromoTextFields, v \in Typed.text : PromoInputChange(f, v)
  \/ PromoSubmit
  \/ \E id \in DOMAIN procs : PromoSubmitOk(id)
  \/ \E id \in DOMAIN procs, d \in ErrDetails : PromoSubmitFail(id, d)
  \/ PayOpenDialog
  \/ PayCloseDialog
  \/ PayCancel
  \/ \E i \in 1..Len(pay.employees) : PaySelectEmployee(i)
  \/ \E v \in Typed.month : PayInputChange("month", v)
  \/ PaySubmit
  \/ \E id \in DOMAIN procs : PaySubmitOk(id)
  \/ \E id \in DOMAIN procs, d \in ErrDetails : PaySubmitFail(id, d)

SpecForms ==
  /\ \E p \in {"/employees", "/promotions", "/payslips"} : MountedAt(p)
  /\ [][NextForms]_vars

\* the edit row of the Payslips page
NextPayEdit ==
  \/ NextPairLoads
  \/ \E i \in 1..Len(pay.payslips) : handleEditPayslip(i)
  \/ handleCancelEdit
  \/ \E v \in Typed.paid_days : PayEditInputChange("paid_days", v)
  \/ \E v \in Typed.lop_days : PayEditInputChange("lop_days", v)
  \/ handleSaveEdit
  \/ \E id \in DOMAIN procs : SaveDeleteOk(id)
  \/ \E id \in DOMAIN procs, d \in ErrDetails : SaveDeleteFail(id, d)
  \/ \E id \in DOMAIN procs : SaveGenerateOk(id)
  \/ \E id \in DOMAIN procs, d \in ErrDetails : SaveGenerateFail(id, d)

SpecPayEdit == MountedAt("/payslips") /\ [][NextPayEdit]_vars

\* the application: the three groups above, and what they leave out
Next ==
  \/ NextSession
  \/ NextForms
  \/ NextPayEdit
  \/ \E f \in {"new_password", "confirm_password"} :
        \E v \in Typed[f] : SettingsSetField(f, v)
  \/ \E id \in DOMAIN procs : SettingsFail(id, "server detail")
  \/ \E id \in DOMAIN procs : DownloadFail(id, "server detail")
  \/ \E v \in Typed.salary : EmpSalaryChange("basic", v)
  \/ \E v \in Typed.salary : PromoSalaryChange("basic", v)
  \/ \E i \in 1..Len(emp.employees) : handleDeleteClick(i)
  \/ EmpCancelDelete
  \/ handleDelete
  \/ \E id \in DOMAIN procs : EmpDeleteOk(id)
  \/ \E id \in DOMAIN procs, d \in ErrDetails : EmpDeleteFail(id, d)
  \/ \E f \in {"paid_days", "home_collection_visit"} : PayInputChange(f, <<>>)

Spec == Init /\ [][Next]_vars

(***************************************************************************)
(* Properties of the payslip edit.                                         *)
(***************************************************************************)
\* the invocations of handleSaveEdit in log l, and the requests handler h issued
SaveHandlers(l) ==
  {h \in 1..Len(l) : l[h].by = h /\ l[h].method = "DELETE" /\ l[h].url[1] = "payslips"}
IssuedBy(l, h) == {i \in 1..Len(l) : l[i].by = h}
Generates(l, h) == {i \in IssuedBy(l, h) : l[i].method = "POST"}
SameMonth(a, b) ==
  a.employee_id = b.employee_id /\ a.month = b.month /\ a.year = b.year

\* C1, in every state: each invocation of handleSaveEdit has issued one
\* DELETE, and a generate request only after that DELETE succeeded: none
\* while it is pending or when it failed, exactly one once it succeeded
C1_Order ==
  \A h \in SaveHandlers(log) :
     /\ {i \in IssuedBy(log, h) : log[i].method = "DELETE"} = {h}
     /\ Cardinality(Generates(log, h)) = IF log[h].status = "ok" THEN 1 ELSE 0
     /\ \A g \in Generates(log, h) :
           g > h /\ log[g].url = <<"payslips", "generate">>

\* C1, in every step: a Save click issues exactly one request, the DELETE of
\* the payslip of the row in edit mode, and the generate request a save
\* issues carries that payslip's employee_id, month and year and the
\* paid_days and lop_days that were in the row's inputs at the click
C1_Step ==
  /\ \A h \in SaveHandlers(log') \ SaveHandlers(log) :
        /\ log' = Append(log, log'[h])
        /\ EditRow # 0
        /\ log'[h].url = <<"payslips", pay.editingPayslip>>
        /\ procs'[h].payslip = pay.payslips[EditRow]
        /\ procs'[h].editFormData = pay.editFormData
  /\ \A h \in SaveHandlers(log) : \A g \in Generates(log', h) \ Generates(log, h) :
        /\ log[h].status = "pending"
        /\ log'[g].body =
              [employee_id |-> procs[h].payslip.employee_id,
               month |-> procs[h].payslip.month,
               year |-> procs[h].payslip.year,
               paid_days |-> parseInt(procs[h].editFormData.paid_days),
               lop_days |-> parseInt(procs[h].editFormData.lop_days)]
  /\ \A h \in DOMAIN procs \cap DOMAIN procs' :
        procs[h].kind = "saveEdit" =>
          /\ procs'[h].payslip = procs[h].payslip
          /\ procs'[h].editFormData = procs[h].editFormData

\* C1: saving a payslip edit issues exactly one DELETE for the payslip's id
\* and then, only after the delete succeeded, exactly one POST
\* /payslips/generate with the same employee_id, month and year and the
\* newly entered paid_days and lop_days; if the delete fails, none
C1_SaveEditDeleteThenGenerate == [][C1_Step /\ C1_Order']_vars

\* the scenario of the edit from paid_days 30 to 25 and lop_days 5: the
\* DELETE of p1 and the generate request that followed both succeeded
C1_Witness ==
  \E h \in SaveHandlers(log) : \E g \in Generates(log, h) :
     /\ log[h].url = <<"payslips", "p1">> /\ log[h].status = "ok"
     /\ log[g].status = "ok"
     /\ log[g].body.employee_id = "e1" /\ log[g].body.month = 1
     /\ log[g].body.paid_days = 25 /\ log[g].body.lop_days = 5

\* C2, in every step in which the generate request of a save fails: the
\* step issues no request and ends the handler, the backend is as the delete
\* left it, without the deleted payslip, and whatever payslip it holds for
\* that employee, month and year was created by a request of another handler
C2_Step ==
  \A h \in SaveHandlers(log) : \A g \in Generates(log, h) :
     log[g].status = "pending" /\ log'[g].status = "fail" =>
       /\ Len(log') = Len(log)
       /\ h \notin DOMAIN procs'
       /\ dbPayslips' = dbPayslips
       /\ \A i \in 1..Len(dbPayslips') :
             /\ dbPayslips'[i].id # log[h].url[2]
             /\ SameMonth(dbPayslips'[i], log[g].body) =>
                   \E j \in 1..Len(log) :
                      /\ log[j].by # h /\ log[j].method = "POST"
                      /\ log[j].status = "ok"
                      /\ log[j].url = <<"payslips", "generate">>
                      /\ SameMonth(log[j].body, log[g].body)

\* C2, in every state: a save whose generate request failed has issued its
\* DELETE and that request and nothing else (no re-creation of the original,
\* no list load), and the backend does not hold the payslip it deleted
C2_After ==
  \A h \in SaveHandlers(log) :
     (\E g \in Generates(log, h) : log[g].status = "fail") =>
       /\ Cardinality(IssuedBy(log, h)) = 2
       /\ h \notin DOMAIN procs
       /\ \A i \in 1..Len(dbPayslips) : dbPayslips[i].id # log[h].url[2]

\* C2: the payslip edit is not atomic: when the delete succeeds and the
\* generate fails, the backend is left without a payslip of this edit for
\* that employee, month and year, and the client issues no compensating
\* request and no refetch
C2_EditNotAtomic == [][C2_Step /\ C2_After']_vars

\* the only payslip was edited, its delete succeeded, the generate failed:
\* the backend holds no payslip
C2_Witness ==
  /\ dbPayslips = <<>>
  /\ \E h \in SaveHandlers(log) : \E g \in Generates(log, h) :
        log[h].status = "ok" /\ log[g].status = "fail"

(***************************************************************************)
(* Properties of the forms.                                                *)
(***************************************************************************)
\* the submits of the three dialogs in log l, those that create, and the
\* urls of the load of the list a creation url belongs to
FormSubmits(l) ==
  {h \in 1..Len(l) :
     /\ l[h].by = h /\ l[h].method \in {"POST", "PUT"}
     /\ l[h].url[1] \in {"employees", "promotions", "payslips"}}
Creates(l) == {h \in FormSubmits(l) : l[h].method = "POST"}
LoadUrls(url) ==
  CASE url = <<"employees">> -> << <<"employees">> >>
    [] url = <<"promotions">> -> << <<"promotions">>, <<"employees">> >>
    [] url = <<"payslips", "generate">> -> << <<"payslips">>, <<"employees">> >>

\* C3, in every state: a creation request that is pending or has failed is
\* the only request of its submit; one that succeeded is followed by the
\* requests of one load of its list and nothing else
C3_Order ==
  \A h \in Creates(log) :
     LET after == IssuedBy(log, h) \ {h}
     IN  IF log[h].status # "ok" THEN after = {}
         ELSE /\ Cardinality(after) = Len(LoadUrls(log[h].url))
              /\ \A i \in after : log[i].method = "GET"
              /\ \E first \in after :
                    \A k \in 1..Len(LoadUrls(log[h].url)) :
                       /\ first + k - 1 \in after
                       /\ log[first + k - 1].url = LoadUrls(log[h].url)[k]

\* C3, in every step: a submit of a create form issues exactly one request,
\* the creation request of that form, and the refetch is issued in the step
\* in which the creation request succeeds
C3_Step ==
  /\ EmpSubmit /\ emp.editingEmployee = NullEmployee =>
        /\ Len(log') = Len(log) + 1
        /\ Creates(log') = Creates(log) \cup {Len(log')}
        /\ log'[Len(log')].url = <<"employees">>
  /\ PromoSubmit =>
        /\ Len(log') = Len(log) + 1
        /\ Creates(log') = Creates(log) \cup {Len(log')}
        /\ log'[Len(log')].url = <<"promotions">>
  /\ PaySubmit =>
        /\ Len(log') = Len(log) + 1
        /\ Creates(log') = Creates(log) \cup {Len(log')}
        /\ log'[Len(log')].url = <<"payslips", "generate">>
  /\ \A h \in Creates(log) :
        log[h].status = "pending" /\ log'[h].status = "ok" =>
          IssuedBy(log', h) \ {h} = (Len(log) + 1)..Len(log')

\* C3: for every create form, one submit of a valid draft issues exactly one
\* creation request and, when that request succeeds, exactly one refetch of
\* the owning list in the same completion step; when it fails, no refetch
C3_CreateThenRefetch == [][C3_Step /\ C3_Order']_vars

\* an employee was created from the Add Employee dialog and the list was
\* requested again
C3_Witness ==
  \E h \in Creates(log) :
     /\ log[h].url = <<"employees">> /\ log[h].status = "ok"
     /\ log[h].body.name = "x"
     /\ \E i \in IssuedBy(log, h) : log[i].method = "GET"

\* the dialog, the draft and the editing target of the form a submit url
\* belongs to, in the component states e, pr and py
FormState(url, e, pr, py) ==
  CASE url[1] = "employees" ->
         [open |-> e.dialogOpen, draft |-> e.formData, target |-> e.editingEmployee]
    [] url[1] = "promotions" ->
         [open |-> pr.dialogOpen, draft |-> pr.formData, target |-> NullEmployee]
    [] url[1] = "payslips" ->
         [open |-> py.dialogOpen, draft |-> py.formData, target |-> NullEmployee]
FormDefaults(url) ==
  CASE url[1] = "employees" -> {EmpFormInit, EmpFormReset}
    [] url[1] = "promotions" -> {PromoFormInit}
    [] url[1] = "payslips" -> {PayFormInit}

\* C4, in every step: the step that issues a submit request and the step in
\* which it fails leave the dialog, the draft and the editing target as they
\* are; the step in which it succeeds closes the dialog, resets the draft and
\* clears the editing target
C4_Step ==
  \A h \in FormSubmits(log') :
     LET before == FormState(log'[h].url, emp, promo, pay)
         after == FormState(log'[h].url, emp', promo', pay')
     IN  /\ h \notin FormSubmits(log) => after = before
         /\ h \in FormSubmits(log) /\ log[h].status = "pending" =>
               /\ log'[h].status = "fail" => after = before
               /\ log'[h].status = "ok" =>
                     /\ ~after.open
                     /\ after.draft \in FormDefaults(log[h].url)
                     /\ after.target = NullEmployee

\* C4: when a form submit request fails (Employee create/update, Promotion
\* create, Payslip generate) the dialog stays open, the draft keeps the
\* values entered and the editing target is unchanged; the submit closes the
\* dialog and resets the draft only on success
C4_FailureKeepsForm == [][C4_Step]_vars

\* the update of e1 failed: its dialog is open on the edited draft
C4_Witness ==
  /\ emp.dialogOpen /\ emp.editingEmployee.id = "e1" /\ emp.formData.name = "x"
  /\ \E h \in FormSubmits(log) :
        /\ log[h].url = <<"employees", "e1">> /\ log[h].status = "fail"
        /\ log[h].body = emp.formData

\* C5: the Add Employee trigger opens the dialog with the default draft and
\* no editing target, in every reachable state, so that the submit of a
\* dialog opened through it is a POST and never a PUT
C5_AddEmployeeOpensCreate ==
  [][EmpOpenDialog =>
       /\ emp'.dialogOpen
       /\ emp'.editingEmployee = NullEmployee
       /\ emp'.formData \in {EmpFormInit, EmpFormReset}]_vars

\* C6, in every step: a submit of the employee form issues exactly one
\* request, PUT /employees/{id of the editing target} when there is an
\* editing target and POST /employees when there is none, and only
\* handleEdit sets the editing target, to the entity it is called with
C6_Step ==
  /\ EmpSubmit =>
        /\ Len(log') = Len(log) + 1
        /\ SubSeq(log', 1, Len(log)) = log
        /\ log'[Len(log')].status = "pending"
        /\ log'[Len(log')].body = emp.formData
        /\ IF emp.editingEmployee # NullEmployee
           THEN /\ log'[Len(log')].method = "PUT"
                /\ log'[Len(log')].url = <<"employees", emp.editingEmployee.id>>
           ELSE /\ log'[Len(log')].method = "POST"
                /\ log'[Len(log')].url = <<"employees">>
  /\ emp'.editingEmployee # emp.editingEmployee =>
        \/ emp'.editingEmployee = NullEmployee
        \/ \E i \in 1..Len(emp.employees) :
              handleEdit(i) /\ emp'.editingEmployee = emp.employees[i]

\* C6: the employee submit dispatches PUT /employees/{id} with the id of the
\* entity of the most recent handleEdit when an editing target is set, and
\* POST /employees when none is set; exactly one request per submit
C6_SubmitDispatch == [][C6_Step]_vars

\* e2 was opened with Edit and submitted: the update went to e2
C6_Witness ==
  \E h \in FormSubmits(log) :
     /\ log[h].method = "PUT" /\ log[h].url = <<"employees", "e2">>
     /\ log[h].body.id = "e2" /\ log[h].status = "ok"

(***************************************************************************)
(* Properties of the session and the router.                               *)
(***************************************************************************)
\* the step in which a login request succeeds with response r
LoginSuccess(r) == \E id \in DOMAIN procs : LoginOk(id, r.token, r.username)
\* the steps of a page load: the load itself and the startup check
PageLoad == StartupCheck \/ \E p \in Paths : Reload(p)

\* C7: login(token, username) stores both values in durable storage and
\* sets the authenticated state to true; logout() removes both values from
\* durable storage and sets the authenticated state to false
C7_LoginLogout ==
  [][/\ \A r \in LoginResponses :
          LoginSuccess(r) =>
            /\ storage' = [token |-> r.token, username |-> r.username]
            /\ isAuthenticated'
     /\ handleLogout => storage' = NoSession /\ ~isAuthenticated']_vars

\* after a login that stored tok1 and admin, a logout: storage holds neither
C7_Witness ==
  /\ storage = NoSession /\ ~isAuthenticated /\ ~isLoading
  /\ \E h \in 1..Len(log) :
        log[h].url = <<"auth", "login">> /\ log[h].status = "ok"

\* C8: once the startup check has completed, the authenticated flag is true
\* if and only if a token is present in durable storage
C8_AuthenticatedIffToken ==
  ~isLoading => (isAuthenticated <=> storage.token # Null)

\* where a navigation to path p ends for a session state auth
Landing(p, auth) ==
  IF ~auth THEN "/login"
  ELSE IF p \in {"/login", "/"} THEN "/dashboard" ELSE p

\* C9, in every state in which the router renders: without a session the
\* login path and the login form, with a session a protected path and its view
C9_Guard ==
  ~isLoading =>
    IF isAuthenticated
    THEN path \in Paths \ {"/login", "/"} /\ View = ChildViews[path]
    ELSE path = "/login" /\ View = "Login"

\* C9: without a session a navigation to any protected path ends at the
\* login path and never renders a protected view; with a session a
\* navigation to the login path ends at /dashboard and never renders the
\* login form
C9_RouteGuard ==
  [][/\ \A p \in Paths : Goto(p) => path' = Landing(p, isAuthenticated)
     /\ StartupCheck => path' = Landing(path, isAuthenticated')
     /\ C9_Guard']_vars

\* a page load without a session ended at the login form, and the login
\* there, made at the login path with a session, ended at /dashboard
C9_Witness ==
  /\ ~isLoading /\ isAuthenticated /\ path = "/dashboard" /\ View = "Dashboard"
  /\ log # <<>> /\ log[1].url = <<"auth", "login">> /\ log[1].status = "ok"

\* C10: the stored token is removed or replaced, and the authenticated flag
\* changed, only by a successful login and by logout; no failed request, list
\* load, form submit, download or credential change does either.  (A page
\* load starts the flag anew and its startup check sets it from storage.)
C10_SessionFrame ==
  [][(storage'.token # storage.token
        \/ (isAuthenticated' # isAuthenticated /\ ~PageLoad))
       => (handleLogout \/ \E r \in LoginResponses : LoginSuccess(r))]_vars

\* the session is intact after a credential change that replaced the stored
\* username and a request that failed
C10_Witness ==
  /\ isAuthenticated /\ storage = [token |-> "tok1", username |-> "boss"]
  /\ \E h \in 1..Len(log) : log[h].status = "fail"
  /\ \E h \in 1..Len(log) : log[h].method = "PUT" /\ log[h].status = "ok"

(***************************************************************************)
(* Properties of the credential change.                                    *)
(***************************************************************************)
\* the credential requests in log l
CredentialRequests(l) ==
  {i \in 1..Len(l) : l[i].method = "PUT" /\ l[i].url = <<"admin", "credentials">>}
MismatchToast == Toast("error", "New password and confirm password do not match")

\* C11: in the Settings form, when new_password differs from
\* confirm_password at submit, the submit issues no request, shows an error,
\* and leaves the loading flag, the form fields and durable storage as they
\* are; and no step taken while the two differ issues a credential request
C11_MismatchAbortsLocally ==
  [][settings.formData.new_password # settings.formData.confirm_password =>
       /\ CredentialRequests(log') = CredentialRequests(log)
       /\ SettingsSubmit =>
             /\ log' = log /\ procs' = procs
             /\ toast' = MismatchToast
             /\ settings' = settings
             /\ storage' = storage]_vars

\* new_password is abc and confirm_password xyz, the submit was refused and
\* nothing was sent
C11_Witness ==
  /\ settings.formData.new_password = "abc"
  /\ settings.formData.confirm_password = "xyz"
  /\ settings.formData.current_password = "pw"
  /\ toast = MismatchToast
  /\ ~settings.loading
  /\ CredentialRequests(log) = {}

\* C12: the credentials request always carries current_password, and
\* carries new_username (new_password) if and only if that field is not
\* empty at submit, with the value of the field; an empty field is an absent
\* key, never an empty string
C12_OmitsEmptyFields ==
  [][\A i \in CredentialRequests(log') \ CredentialRequests(log) :
        LET fd == settings.formData
            b  == log'[i].body
        IN  /\ "current_password" \in DOMAIN b
            /\ b.current_password = fd.current_password
            /\ \A k \in {"new_username", "new_password"} :
                  /\ k \in DOMAIN b <=> fd[k] # ""
                  /\ k \in DOMAIN b => b[k] = fd[k]
            /\ DOMAIN b \subseteq {"current_password", "new_username", "new_password"}]_vars

\* a request sent with both new fields empty carries current_password only
C12_Witness ==
  \E i \in CredentialRequests(log) :
     /\ DOMAIN log[i].body = {"current_password"}
     /\ log[i].body.current_password = "pw"

(***************************************************************************)
(* Properties of the numbers sent.                                         *)
(***************************************************************************)
\* C13: every currency field (the salary components of an employee or
\* promotion draft, home_collection_visit) and every day field (paid_days,
\* lop_days) of every request sent holds a number, never not-a-number, and
\* the generate request of a payslip edit carries 0 for a day input that is
\* empty or not numeric
C13_NumericCoercion ==
  /\ \A i \in 1..Len(log) :
        LET b == log[i].body
        IN  /\ \A k \in {"paid_days", "lop_days", "home_collection_visit"} \cap DOMAIN b :
                  b[k] # NaN
            /\ \A c \in {"salary_components", "new_salary_components"} \cap DOMAIN b :
                  \A k \in DOMAIN b[c] : b[c][k] # NaN
  /\ \A id \in DOMAIN procs :
        procs[id].kind = "saveEdit" /\ procs[id].pc = "generate" =>
          \A k \in {"paid_days", "lop_days"} :
             log[procs[id].req].body[k] = OrZero(parseInt(procs[id].editFormData[k]))

(***************************************************************************)
(* Properties of the list loads.                                           *)
(***************************************************************************)
TableViews == {"Employees", "Promotions", "Payslips"}
\* the collections a view holds and its loading flag, in the component
\* states e, pr and py
Held(view, e, pr, py) ==
  CASE view = "Employees"  -> <<e.employees>>
    [] view = "Promotions" -> <<pr.promotions, pr.employees>>
    [] view = "Payslips"   -> <<py.payslips, py.employees>>
LoadingOf(view, e, pr, py) ==
  CASE view = "Employees"  -> e.loading
    [] view = "Promotions" -> pr.loading
    [] view = "Payslips"   -> py.loading
\* the loads in flight of the mounted instance of a view, and the log
\* indices of the requests of load p
LoadsOf(view) ==
  {id \in DOMAIN procs :
     procs[id].kind = "fetch" /\ procs[id].view = view /\ ~procs[id].stale}
LoadReqs(p) == p.first .. (p.first + Len(FetchRequests(p.view, 0)) - 1)

\* C14, in every step: when a request of a load fails, every collection of
\* the view keeps its value and loading becomes false; a collection of a
\* view changes only in the step in which the last of the parallel requests
\* of one of its loads succeeds, all of them having succeeded, and what
\* arrived earlier is what is installed
C14_Step ==
  \A v \in TableViews :
     /\ \A id \in LoadsOf(v) :
           (\E i \in LoadReqs(procs[id]) :
               log[i].status = "pending" /\ log'[i].status = "fail") =>
             /\ Held(v, emp', promo', pay') = Held(v, emp, promo, pay)
             /\ ~LoadingOf(v, emp', promo', pay')
     /\ Held(v, emp', promo', pay') # Held(v, emp, promo, pay) =>
           \E id \in LoadsOf(v) :
              /\ \A i \in LoadReqs(procs[id]) : log'[i].status = "ok"
              /\ \E i \in LoadReqs(procs[id]) : log[i].status = "pending"
              /\ ~LoadingOf(v, emp', promo', pay')
              /\ 0 \in procs[id].arrived =>
                    Held(v, emp', promo', pay')[1] = procs[id].data0
              /\ 1 \in procs[id].arrived =>
                    Held(v, emp', promo', pay')[2] = procs[id].data1

\* C14: a list load replaces the view's items only when all of its parallel
\* fetches succeed; if any fetch fails, every held collection keeps its
\* previous value and loading becomes false
C14_LoadAllOrNothing == [][C14_Step]_vars

\* after a payslip was generated the reload got the payslips but not the
\* employees: the page still shows the list it had, not the one that arrived
C14_Witness ==
  /\ ~pay.loading /\ pay.payslips = <<P1>> /\ Len(dbPayslips) = 2
  /\ \E i \in 1..Len(log) - 1 :
        /\ log[i].by # i
        /\ log[i].url = <<"payslips">> /\ log[i].status = "ok"
        /\ log[i + 1].url = <<"employees">> /\ log[i + 1].status = "fail"

\* C15: in every list view (Employees, Promotions, Payslips, Dashboard) the
\* step in which a request of a list load fails shows an error notification
C15_FailedLoadNotifies ==
  [][\A i \in 1..Len(log) :
        /\ log[i].method = "GET" /\ log[i].url \in ListUrls
        /\ log[i].status = "pending"
        /\ i <= Len(log') /\ log'[i].status = "fail"
        => toast'.kind = "error"]_vars

\* C16: every load, the one on mount and every refetch after a mutation,
\* sets loading to true when it starts: whenever a request of a load of the
\* mounted view is in flight, the view's loading flag is true (and the
\* placeholder is rendered instead of the table)
C16_LoadingWhileInFlight ==
  \A v \in TableViews :
     (\E id \in LoadsOf(v) : \E i \in LoadReqs(procs[id]) : log[i].status = "pending")
       => LoadingOf(v, emp, promo, pay)

\* the loads of the employee list in log l
EmployeeLoads(l) ==
  {i \in 1..Len(l) : l[i].method = "GET" /\ l[i].url = <<"employees">>}

\* C17: overlapping loads of one view are not synchronized: the step in
\* which a load of the mounted Employees view succeeds installs the response
\* of that load, whichever loads were issued after it and whether or not
\* they have been applied, so the items held are those of the response that
\* resolved last
C17_LastResponseWins ==
  [][\A id \in LoadsOf("Employees") :
        LET i == procs[id].first
        IN  log[i].status = "pending" /\ log'[i].status = "ok" =>
              /\ emp'.employees = Answer(log, i)
              /\ ~emp'.loading]_vars

\* two terminations overlapped and so did their refetches: both responses
\* have been applied and the view holds the one of the request issued first,
\* which still lists the employee terminated second
C17_Witness ==
  \E a, b \in EmployeeLoads(log) :
     /\ a < b /\ log[a].by # a /\ log[b].by # b
     /\ log[a].status = "ok" /\ log[b].status = "ok"
     /\ Answer(log, a) # Answer(log, b)
     /\ emp.employees = Answer(log, a)
     /\ LoadsOf("Employees") = {}

(***************************************************************************)
(* Properties of the submits and of the notifications.                     *)
(***************************************************************************)
\* the submit handlers of the forms: Login, Settings, Employee create/edit,
\* Promotion create, Payslip generate
SubmitKinds == {"login", "credentials", "empSubmit", "promoSubmit", "paySubmit"}

\* C18: in every form, while a submit request of the form is in flight a
\* second submit of the same form cannot issue another request: the mounted
\* form never has two submit requests pending
C18_NoDuplicateSubmit ==
  \A k \in SubmitKinds :
     Cardinality({h \in DOMAIN procs :
                    /\ procs[h].kind = k /\ ~procs[h].stale
                    /\ log[h].status = "pending"}) <= 1

\* the step in which the request handler `id` awaits fails with `detail` in
\* the error body
FailStep(id, detail) ==
  \/ LoginFail(id, detail)
  \/ SettingsFail(id, detail)
  \/ FetchStatsFail(id, detail)
  \/ FetchEmployeesFail(id, detail)
  \/ \E k \in {0, 1} : FetchPartFail(id, k, detail)
  \/ EmpSubmitFail(id, detail)
  \/ EmpDeleteFail(id, detail)
  \/ PromoSubmitFail(id, detail)
  \/ PaySubmitFail(id, detail)
  \/ DownloadFail(id, detail)
  \/ SaveDeleteFail(id, detail)
  \/ SaveGenerateFail(id, detail)

\* the generic message of the action handler p performs
Fallback(p) ==
  CASE p.kind = "login"       -> "Login failed"
    [] p.kind = "credentials" -> "Failed to update credentials"
    [] p.kind = "empSubmit"   -> "Operation failed"
    [] p.kind = "empDelete"   -> "Failed to terminate employee"
    [] p.kind = "promoSubmit" -> "Failed to create promotion"
    [] p.kind = "paySubmit"   -> "Failed to generate payslip"
    [] p.kind = "download"    -> "Failed to download payslip"
    [] p.kind = "saveEdit"    -> "Failed to update payslip"
    [] p.kind = "fetch" ->
         CASE p.view = "Employees" -> "Failed to fetch employees"
           [] OTHER                -> "Failed to fetch data"

\* C19: for every failed request (list load, form submit, employee
\* termination, payslip edit, download, login, credential change) the
\* notification shown is the `detail` of the error body when it has one and
\* the generic message of the action only when it has none
C19_DetailShownVerbatim ==
  [][\A id \in DOMAIN procs : \A d \in ErrDetails :
        FailStep(id, d) => toast' = Toast("error", DetailOr(d, Fallback(procs[id])))]_vars

(***************************************************************************)
(* Properties of the promotion form.                                       *)
(***************************************************************************)
\* C21, in every step: selecting a listed employee sets employee_id,
\* new_designation and new_salary_components of the draft from that employee
\* and leaves promotion_date and the rest of the view as they are; selecting
\* an id that is not listed changes nothing; the employee list changes only
\* in a step in which a list load succeeds, never by an edit of the draft;
\* and a submit issues one request, the POST of the draft as it stands
C21_Step ==
  /\ \A e \in EmployeeIds :
        handleEmployeeChange(e) =>
          LET hits == {i \in 1..Len(promo.employees) : promo.employees[i].id = e}
          IN  IF hits = {} THEN promo' = promo
              ELSE \E i \in hits :
                     /\ promo'.formData =
                          [employee_id |-> e,
                           new_designation |-> promo.employees[i].designation,
                           new_salary_components |-> promo.employees[i].salary_components,
                           promotion_date |-> promo.formData.promotion_date]
                     /\ [promo' EXCEPT !.formData = promo.formData] = promo
  /\ promo'.employees # promo.employees =>
        \E i \in 1..Len(log) :
           /\ log[i].method = "GET"
           /\ log[i].status = "pending" /\ log'[i].status = "ok"
  /\ PromoSubmit =>
        /\ Len(log') = Len(log) + 1
        /\ SubSeq(log', 1, Len(log)) = log
        /\ log'[Len(log')].method = "POST"
        /\ log'[Len(log')].url = <<"promotions">>
        /\ log'[Len(log')].body = promo.formData
        /\ promo' = promo

\* C21: selecting an employee in the Promotion form copies that employee's
\* designation and salary components into the draft and leaves
\* promotion_date unchanged; later edits of the draft never modify the
\* employee held in the list, the submit sends the draft as it stands, and
\* selecting an id that is not in the list changes nothing
C21_PrefillIsCopy == [][C21_Step]_vars

\* e1 was selected after the date was typed, the basic salary of the draft
\* was edited and the draft was sent: the request carries the date, the
\* designation of e1 and the edited salary, and the list still holds e1 as
\* it was loaded
C21_Witness ==
  /\ promo.employees = <<E1, E2>>
  /\ \E h \in 1..Len(log) :
        /\ log[h].method = "POST" /\ log[h].url = <<"promotions">>
        /\ log[h].body.employee_id = "e1"
        /\ log[h].body.promotion_date = "x"
        /\ log[h].body.new_designation = E1.designation
        /\ log[h].body.new_salary_components =
              [E1.salary_components EXCEPT !["basic"] = 500]

(***************************************************************************)
(* More properties of the payslip edit.                                    *)
(***************************************************************************)
\* C22, in every state: the generate request of a save has the keys
\* employee_id, month, year, paid_days and lop_days and no other
C22_Payload ==
  \A h \in SaveHandlers(log) : \A g \in Generates(log, h) :
     DOMAIN log[g].body = {"employee_id", "month", "year", "paid_days", "lop_days"}

\* C22, in every step in which the generate request of a save succeeds: the
\* payslip created is of the employee, month and year of the payslip that
\* was edited and its home_collection_visit is 0, whatever the amount of the
\* edited payslip was
C22_Step ==
  \A h \in SaveHandlers(log) : \A g \in Generates(log, h) :
     log[g].status = "pending" /\ log'[g].status = "ok" =>
       /\ Len(dbPayslips') = Len(dbPayslips) + 1
       /\ SameMonth(dbPayslips'[Len(dbPayslips')], procs[h].payslip)
       /\ dbPayslips'[Len(dbPayslips')].home_collection_visit = 0

\* C22: a payslip edit carries over only employee, month and year: the
\* regenerate request contains no home_collection_visit, so a payslip
\* generated with a non-zero home_collection_visit no longer has that amount
\* after its paid or LOP days are edited
C22_EditDropsHomeCollection == [][C22_Step /\ C22_Payload']_vars

\* p1, generated with a home_collection_visit of 50, was edited to 25 paid
\* days: the list, loaded again, shows its replacement with an amount of 0
C22_Witness ==
  /\ P1.home_collection_visit = 50
  /\ pay.payslips = dbPayslips /\ Len(pay.payslips) = 1
  /\ pay.payslips[1].id = "p2" /\ SameMonth(pay.payslips[1], P1)
  /\ pay.payslips[1].paid_days = 25
  /\ pay.payslips[1].home_collection_visit = 0
  /\ \E h \in SaveHandlers(log) :
        log[h].url = <<"payslips", "p1">> /\ log[h].status = "ok"

(***************************************************************************)
(* Properties of the download.                                             *)
(***************************************************************************)
\* the invocations of handleDownload in log l
Downloads(l) ==
  {h \in 1..Len(l) :
     /\ l[h].method = "GET" /\ Len(l[h].url) = 3
     /\ l[h].url[1] = "payslips" /\ l[h].url[2] = "download"}
\* the name of the file of payslip p
FileOf(p) ==
  <<"payslip_", p.employee_no, "_",
    CASE p.month = 1 -> "January" [] p.month = 2 -> "February"
      [] p.month = 3 -> "March" [] p.month = 4 -> "April"
      [] p.month = 5 -> "May" [] p.month = 6 -> "June"
      [] p.month = 7 -> "July" [] p.month = 8 -> "August"
      [] p.month = 9 -> "September" [] p.month = 10 -> "October"
      [] p.month = 11 -> "November" [] p.month = 12 -> "December",
    "_", ToStr(p.year), ".pdf">>

\* C23, in every step: a click on Download of a row issues one request, the
\* GET of /payslips/download/{id of the row}; the step in which that request
\* succeeds saves one file, named after the employee_no, the month name and
\* the year of that payslip; a file is saved in no other step; and the
\* click, the success and the failure issue no other request and leave the
\* session, the route and the state of every view as they are
C23_Step ==
  /\ \A h \in Downloads(log') \ Downloads(log) :
        /\ log' = Append(log, log'[h])
        /\ log'[h].by = h
        /\ \E i \in 1..Len(pay.payslips) :
              handleDownload(i) /\ log'[h].url[3] = pay.payslips[i].id
        /\ saved' = saved
        /\ <<appVars, viewVars>>' = <<appVars, viewVars>>
  /\ \A h \in Downloads(log) \cap Downloads(log') :
        log[h].status = "pending" /\ log'[h].status # "pending" =>
          /\ Len(log') = Len(log)
          /\ h \notin DOMAIN procs'
          /\ <<appVars, viewVars>>' = <<appVars, viewVars>>
          /\ IF log'[h].status = "ok"
             THEN \E i \in 1..Len(dbPayslips) :
                    /\ dbPayslips[i].id = log[h].url[3]
                    /\ saved' = FileOf(dbPayslips[i])
             ELSE saved' = saved
  /\ saved' # saved =>
        \E h \in Downloads(log) \cap Downloads(log') :
           log[h].status = "pending" /\ log'[h].status = "ok"

\* C23: downloading payslip id X issues exactly one GET
\* /payslips/download/X and one save action named
\* payslip_{employee_no}_{month_name}_{year}.pdf, and changes no application
\* state (payslips, employees, loading, dialog and editing flags, drafts,
\* session), on success and on failure
C23_DownloadFrame ==
  [][/\ C23_Step
     /\ \A h \in Downloads(log') : IssuedBy(log', h) = {h}]_vars

\* p1 of employee E001, January 2025, was downloaded and saved, and a second
\* download failed: the page is as it was loaded
C23_Witness ==
  /\ saved = <<"payslip_", "E001", "_", "January", "_", <<"2", "0", "2", "5">>, ".pdf">>
  /\ \E a, b \in Downloads(log) :
        /\ log[a].url = <<"payslips", "download", "p1">>
        /\ log[a].status = "ok" /\ log[b].status = "fail"
  /\ pay = [PayInit EXCEPT !.payslips = <<P1>>, !.employees = <<E1, E2>>,
                           !.loading = FALSE]
  /\ isAuthenticated /\ path = "/payslips"

(***************************************************************************)
(* Properties of repeated activations.                                     *)
(***************************************************************************)
\* the saves of the payslip with id pid that are in flight, issued by the
\* mounted page
SavesInFlight(pid) ==
  {h \in DOMAIN procs :
     procs[h].kind = "saveEdit" /\ ~procs[h].stale /\ procs[h].payslip.id = pid}

\* C24: a second activation of Save of a payslip row before the first has
\* completed issues no request: at most one save of a payslip is in flight,
\* so at most one DELETE and one generate request are issued for the edit
C24_OneSavePerEdit ==
  \A i \in 1..Len(PayslipIds) :
     Cardinality(SavesInFlight(PayslipIds[i])) <= 1

(***************************************************************************)
(* More properties of the session.                                         *)
(***************************************************************************)
\* C25: after logout durable storage holds neither token nor username until
\* the next successful login, whatever completes in between: storage that
\* holds neither gets a value only in the step of a successful login
C25_LogoutClearsUntilLogin ==
  [][storage = NoSession /\ storage' # NoSession =>
       \E r \in LoginResponses : LoginSuccess(r)]_vars

\* the paths of the protected views
ProtectedPaths == Paths \ {"/login", "/"}

\* C26, in every state: while isLoading is true the placeholder is rendered
\* and no route: no view has mounted since the page was loaded and no
\* request was issued
C26_NoRouteWhileLoading ==
  isLoading => View = "Loading" /\ log = <<>> /\ procs = NoProcs

\* C26, in every step: while isLoading is true the location changes only
\* when the page is loaded anew, and the step in which the startup check
\* completes on a protected path with a token in storage sets the
\* authenticated flag and renders the view of that path, at that path
C26_Step ==
  /\ isLoading /\ isLoading' /\ path' # path => \E p \in Paths : Reload(p)
  /\ isLoading /\ ~isLoading' /\ Truthy(storage.token) /\ path \in ProtectedPaths =>
        /\ isAuthenticated'
        /\ path' = path /\ path' # "/login"
        /\ RenderedView(path', isAuthenticated', isLoading') = ChildViews[path]

\* C26: the route guard is never evaluated before the startup token check
\* has completed: while isLoading is true no route is rendered, so a page
\* reload on a protected path with a token in storage ends on that
\* protected path and never redirects to the login path
C26_GuardAfterStartupCheck == [][C26_Step /\ C26_NoRouteWhileLoading']_vars

\* the page was loaded anew at /payslips with the token of an earlier login
\* in storage: the startup check has completed, the Payslips page is
\* mounted and its first load is the first request of the page
C26_Witness ==
  /\ ~isLoading /\ isAuthenticated /\ storage.token = "tok1"
  /\ path = "/payslips" /\ View = "Payslips"
  /\ Len(log) = 2 /\ log[1].url = <<"payslips">> /\ log[1].by = 1

(***************************************************************************)
(* More properties of the credential change.                               *)
(***************************************************************************)
\* C27: a submit of the Settings form with an empty new_password passes the
\* comparison of the two passwords and issues exactly one credentials
\* request, whatever edits of the fields came before it
C27_EmptyNewPasswordPasses ==
  [][SettingsSubmit /\ settings.formData.new_password = "" =>
       /\ Len(log') = Len(log) + 1
       /\ CredentialRequests(log') = CredentialRequests(log) \cup {Len(log')}
       /\ toast' # MismatchToast]_vars

(***************************************************************************)
(* More properties of the forms.                                           *)
(***************************************************************************)
\* the steps that call resetForm of Employees: the dialog is closed, or a
\* submit of the mounted page succeeds
EmpResets ==
  \/ EmpCloseDialog
  \/ \E id \in DOMAIN procs : ~procs[id].stale /\ EmpSubmitOk(id)

\* C28: resetForm of the Employee form restores the draft to exactly the
\* initial draft of the component, same keys and same values, so a create
\* request carries the same salary component keys whether or not the dialog
\* was closed or submitted before
C28_ResetIsInitialDraft ==
  [][/\ EmpResets => emp'.formData = EmpFormInit
     /\ \A h \in Creates(log') :
           log'[h].url = <<"employees">> =>
             DOMAIN log'[h].body.salary_components =
               DOMAIN EmpFormInit.salary_components]_vars

\* C29: a POST /payslips/generate of the generate dialog is issued only
\* with a selected employee (a non-empty employee_id) and a month that is
\* an integer in 1..12
C29_GenerateNeedsEmployeeAndMonth ==
  \A h \in Creates(log) :
     log[h].url = <<"payslips", "generate">> =>
       /\ log[h].body.employee_id # ""
       /\ log[h].body.month \in 1..12

(***************************************************************************)
(* Termination of the loading states.                                      *)
(***************************************************************************)
\* the view v is rendered and its loading flag is true: a list view shows
\* its placeholder, Login and Settings have their submit button disabled
Busy(v) ==
  /\ View = v
  /\ CASE v = "Login"      -> login.loading
       [] v = "Settings"   -> settings.loading
       [] v = "Dashboard"  -> dash.loading
       [] v = "Employees"  -> emp.loading
       [] v = "Promotions" -> promo.loading
       [] v = "Payslips"   -> pay.loading

\* C30: provided every issued request eventually completes, with success
\* or failure, every loading flag eventually becomes false: each list view
\* leaves its loading placeholder after its first load, and the submit
\* buttons of Login and Settings are enabled again after every submit
C30_LoadingEnds ==
  \A v \in ListViews \cup {"Login", "Settings"} : Busy(v) ~> ~Busy(v)

\* a login failed and the next one succeeded, then the load of the
\* Dashboard failed: the Dashboard is rendered, not its placeholder
C30_Witness ==
  /\ View = "Dashboard" /\ ~dash.loading
  /\ \E a, b, c \in 1..Len(log) :
        /\ log[a].url = <<"auth", "login">> /\ log[a].status = "fail"
        /\ log[b].url = <<"auth", "login">> /\ log[b].status = "ok"
        /\ log[c].url = <<"dashboard", "stats">> /\ log[c].status = "fail"

====
